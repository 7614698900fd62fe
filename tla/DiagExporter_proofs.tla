------------------------- MODULE DiagExporter_proofs -------------------------
(***************************************************************************)
(* Proofs about DiagExporter, for any number of sources and threads.       *)
(***************************************************************************)
EXTENDS DiagExporter, FiniteSetTheorems, WellFoundedInduction, TLAPS

\* The numbers of the actions that run are below the counter, and all different;
\* a slot that is filled has a number that was handed out and is in use no more.
SlotInv ==
  /\ counter \in Nat
  /\ fileId \in [Threads -> Int]
  /\ main = "collect" => DOMAIN results = {}
  /\ DOMAIN results \subseteq Nat
  /\ \A t \in Threads : fileId[t] # -1 => fileId[t] < counter
  /\ \A t, u \in Threads : fileId[t] = fileId[u] /\ fileId[t] # -1 => t = u
  /\ \A s \in DOMAIN results :
       results[s] # None => s < counter /\ \A t \in Threads : fileId[t] # s

\* A thread takes the next number: no other action has it, and no slot of it is filled.
LEMMA CreateStep ==
  ASSUME SlotInv, NEW t \in Threads, Create(t)
  PROVE  SlotInv'
<1>1. /\ counter' = counter + 1 /\ fileId' = [fileId EXCEPT ![t] = counter]
      /\ UNCHANGED <<main, threadNum, results>> /\ Threads' = Threads
  BY DEF Create, allocation, Threads
<1>2. /\ counter \in Nat /\ fileId \in [Threads -> Int]
      /\ \A u \in Threads : fileId[u] # -1 => fileId[u] < counter
  BY DEF SlotInv
<1>3. /\ fileId' \in [Threads -> Int] /\ fileId'[t] = counter
      /\ \A u \in Threads : u # t => fileId'[u] = fileId[u]
  BY <1>1, <1>2
<1>4. \A u \in Threads : fileId'[u] # -1 => fileId'[u] < counter'
  BY <1>1, <1>2, <1>3
<1>5. \A u, v \in Threads : fileId'[u] = fileId'[v] /\ fileId'[u] # -1 => u = v
  BY <1>2, <1>3 DEF SlotInv
<1>6. \A s \in DOMAIN results :
        results[s] # None => s < counter' /\ \A u \in Threads : fileId'[u] # s
  BY <1>1, <1>2, <1>3 DEF SlotInv
<1>7. QED
  BY <1>1, <1>2, <1>3, <1>4, <1>5, <1>6 DEF SlotInv

\* A thread gives up its number, and may fill the slot of it.
LEMMA ReleaseStep ==
  ASSUME SlotInv, NEW t \in Threads, fileId[t] # -1,
         fileId' = [fileId EXCEPT ![t] = -1],
         UNCHANGED <<counter, threadNum>>, main' # "collect",
         \/ results' = results
         \/ fileId[t] \in DOMAIN results /\ \E r : results' = [results EXCEPT ![fileId[t]] = r]
  PROVE  SlotInv'
<1>1. Threads' = Threads
  BY DEF Threads
<1>2. /\ counter \in Nat /\ fileId \in [Threads -> Int] /\ DOMAIN results \subseteq Nat
      /\ fileId[t] < counter
  BY DEF SlotInv
<1>3. /\ fileId' \in [Threads -> Int] /\ fileId'[t] = -1
      /\ \A u \in Threads : u # t => fileId'[u] = fileId[u]
  BY <1>2
<1>4. /\ DOMAIN results' = DOMAIN results
      /\ \A s \in DOMAIN results : s # fileId[t] => results'[s] = results[s]
  OBVIOUS
<1>5. ASSUME NEW s \in DOMAIN results, results'[s] # None
      PROVE  s < counter /\ \A u \in Threads : fileId'[u] # s
  <2>1. s \in Nat
    BY <1>2
  <2>2. CASE s = fileId[t]
    <3>1. \A u \in Threads : u # t => fileId[u] # s
      BY <2>1, <2>2 DEF SlotInv
    <3>2. QED
      BY <1>2, <1>3, <2>1, <2>2, <3>1
  <2>3. CASE s # fileId[t]
    <3>1. results[s] # None
      BY <1>4, <1>5, <2>3
    <3>2. s < counter /\ \A u \in Threads : fileId[u] # s
      BY <3>1 DEF SlotInv
    <3>3. QED
      BY <1>3, <2>1, <3>2
  <2>4. QED
    BY <2>2, <2>3
<1>6. \A u \in Threads : fileId'[u] # -1 => fileId'[u] < counter
  BY <1>3 DEF SlotInv
<1>7. \A u, v \in Threads : fileId'[u] = fileId'[v] /\ fileId'[u] # -1 => u = v
  BY <1>3 DEF SlotInv
<1>8. QED
  BY <1>1, <1>2, <1>3, <1>4, <1>5, <1>6, <1>7 DEF SlotInv

\* Every step keeps the invariant.
LEMMA SlotStep ==
  ASSUME SlotInv, [Next]_vars
  PROVE  SlotInv'
<1>1. CASE Collect
  <2>1. /\ fileId' = [t \in Threads' |-> -1] /\ counter' = counter
        /\ results' = [s \in Slots(Cardinality(regular)) |-> None]
        /\ main' # "collect"
    BY <1>1 DEF Collect, Threads
  <2>2. DOMAIN results' \subseteq Nat
    <3>1. \A n : \A s \in Slots(n) : s \in Nat
      BY DEF Slots
    <3>2. QED
      BY <2>1, <3>1
  <2>3. \A s \in DOMAIN results' : results'[s] = None
    BY <2>1
  <2>4. \A t \in Threads' : fileId'[t] = -1
    BY <2>1
  <2>5. fileId' \in [Threads' -> Int]
    BY <2>1
  <2> HIDE <2>1
  <2>6. counter' \in Nat /\ main' # "collect"
    BY <2>1 DEF SlotInv
  <2>7. QED
    BY <2>2, <2>3, <2>4, <2>5, <2>6 DEF SlotInv
<1>2. CASE Allocate \/ AllocateToNone \/ StartThreads \/ Join
  <2>1. /\ main # "collect" /\ main' # "collect"
        /\ UNCHANGED <<counter, threadNum, fileId, results>>
    BY <1>2 DEF Allocate, Assign, AllocateToNone, StartThreads, Join, allocation
  <2>2. QED
    BY <2>1 DEF SlotInv, Threads
<1>3. ASSUME NEW t \in Threads, Thread(t)
      PROVE  SlotInv'
  <2>1. CASE Create(t)
    BY <2>1, CreateStep
  <2>2. CASE CannotOpen(t)
    BY <2>2, ReleaseStep DEF CannotOpen, Busy, NextFile, allocation
  <2>3. CASE EndSourceFileAction(t)
    <3>1. /\ fileId[t] # -1 /\ fileId' = [fileId EXCEPT ![t] = -1]
          /\ UNCHANGED <<counter, threadNum>> /\ main' # "collect"
      BY <2>3 DEF EndSourceFileAction, Busy, NextFile, allocation
    <3>2. \/ results' = results
          \/ fileId[t] \in DOMAIN results /\ \E r : results' = [results EXCEPT ![fileId[t]] = r]
      BY <2>3 DEF EndSourceFileAction
    <3>3. QED
      BY <3>1, <3>2, ReleaseStep
  <2>4. QED
    BY <1>3, <2>1, <2>2, <2>3 DEF Thread
<1>4. CASE UNCHANGED vars
  BY <1>4 DEF vars, allocation, SlotInv, Threads
<1>5. QED
  BY <1>1, <1>2, <1>3, <1>4 DEF Next

\* The slot of a file that is done is never filled again, by any thread: all
\* results are written without a lock into one vector.
THEOREM SlotsWrittenOnce == Spec => SlotWrittenOnce
<1>1. Init => SlotInv
  BY DEF Init, SlotInv, Threads
<1>2. SlotInv /\ [Next]_vars => SlotInv'
  BY SlotStep
<1>3. SlotInv /\ [Next]_vars =>
        [\A s \in DOMAIN results : results[s] # None => results'[s] = results[s]]_vars
  <2> SUFFICES ASSUME SlotInv, Next, NEW s \in DOMAIN results, results[s] # None
               PROVE  results'[s] = results[s]
    OBVIOUS
  <2>1. CASE Collect
    BY <2>1 DEF Collect, SlotInv
  <2>2. CASE Allocate \/ AllocateToNone \/ StartThreads \/ Join
    BY <2>2 DEF Allocate, Assign, AllocateToNone, StartThreads, Join
  <2>3. ASSUME NEW t \in Threads, Thread(t)
        PROVE  results'[s] = results[s]
    <3>1. fileId[t] # s
      BY DEF SlotInv
    <3>2. QED
      BY <2>3, <3>1 DEF Thread, Create, CannotOpen, EndSourceFileAction
  <2>4. QED
    BY <2>1, <2>2, <2>3 DEF Next
<1>4. QED
  BY <1>1, <1>2, <1>3, PTL DEF Spec, SlotWrittenOnce

-----------------------------------------------------------------------------
\* The smallest of three numbers.
LEMMA MinOfThree ==
  ASSUME NEW a \in Nat, NEW b \in Nat, NEW c \in Nat
  PROVE  Min({a, b, c}) \in Nat /\ Min({a, b, c}) <= c
<1>1. \E x \in {a, b, c} : \A y \in {a, b, c} : x <= y
  <2>1. CASE a <= b /\ a <= c
    BY <2>1
  <2>2. CASE b <= a /\ b <= c
    BY <2>2
  <2>3. CASE c <= a /\ c <= b
    BY <2>3
  <2>4. QED
    BY <2>1, <2>2, <2>3
<1>2. Min({a, b, c}) \in {a, b, c} /\ \A y \in {a, b, c} : Min({a, b, c}) <= y
  BY <1>1 DEF Min
<1>3. QED
  BY <1>2

\* The sources, and any part of them, are finitely many.
LEMMA FilesFinite ==
  ASSUME NEW F \in SUBSET Paths
  PROVE  IsFiniteSet(F) /\ Cardinality(F) \in Nat
<1>1. IsFiniteSet(Paths)
  BY SourcesAssumption, FS_Interval DEF Paths
<1>2. QED
  BY <1>1, FS_Subset, FS_CardinalityType

\* What is true of the threads in either mode.
ThreadsInv ==
  /\ TypeOK
  /\ main = "collect" => /\ threadNum = 0 /\ counter = 0 /\ pending = {}
                         /\ opened = {} /\ results = <<>>
  /\ main # "collect" => DOMAIN results = Slots(Cardinality(regular))
  /\ main = "allocate" => \A t \in Threads : fileId[t] = -1
  /\ main = "allocate" => threadNum # 1
  /\ \A t \in Threads : fileId[t] # -1 => batches[t] # <<>>

\* Collect chooses the threads and makes their batches.
LEMMA CollectThreads ==
  ASSUME ThreadsInv, Collect
  PROVE  ThreadsInv'
<1>1. /\ main = "collect" /\ UNCHANGED <<regular, size, option, counter, opened>>
      /\ results' = [s \in Slots(Cardinality(regular)) |-> None]
      /\ threadNum' = Min({option, Hardware, Cardinality(regular)})
      /\ load' = [t \in 1..threadNum' |-> 0]
      /\ fileId' = [t \in 1..threadNum' |-> -1]
  BY DEF Collect, input, ValidateThreadNum
<1>2. /\ regular \subseteq Paths /\ option \in Nat /\ Hardware \in Nat /\ Cardinality(regular) \in Nat
      /\ opened \subseteq regular /\ counter \in Nat
      /\ size \in [Paths -> Sizes] /\ option \in ThreadOptions /\ pending \subseteq regular
  BY SourcesAssumption, FilesFinite DEF ThreadsInv, TypeOK
<1>3. threadNum' \in 0..Cardinality(regular)
  BY <1>1, <1>2, MinOfThree
<1>4. /\ main' \in {"run", "allocate"} /\ pending' \subseteq regular
      /\ main' = "allocate" => threadNum' # 1
      /\ batches' \in [1..threadNum' -> Seq(Paths)]
  <2>1. CASE /\ threadNum' = 1 /\ main' = "run"
             /\ batches' = <<[p \in Paths |-> p]>> /\ UNCHANGED pending
    <3>1. [p \in Paths |-> p] \in Seq(Paths)
      BY SourcesAssumption DEF Paths
    <3>2. <<[p \in Paths |-> p]>> \in [1..1 -> Seq(Paths)]
      BY <3>1
    <3>3. QED
      BY <1>2, <2>1, <3>2
  <2>2. CASE /\ threadNum' # 1 /\ main' = "allocate"
             /\ batches' = [t \in 1..threadNum' |-> <<>>] /\ pending' = regular
    BY <2>2
  <2>3. QED
    BY <2>1, <2>2 DEF Collect
<1>5. /\ load' \in [1..threadNum' -> Nat]
      /\ fileId' \in [1..threadNum' -> Nat \cup {-1}]
      /\ \A t \in 1..threadNum' : fileId'[t] = -1
  BY <1>1
<1>6. /\ results' \in [DOMAIN results' -> regular \cup {None}]
      /\ DOMAIN results' = Slots(Cardinality(regular))
  BY <1>1
<1>7. Threads' = 1..threadNum'
  BY DEF Threads
<1>8. TypeOK'
  BY <1>1, <1>2, <1>3, <1>4, <1>5, <1>6, <1>7 DEF TypeOK
<1>9. QED
  BY <1>1, <1>4, <1>5, <1>6, <1>7, <1>8 DEF ThreadsInv

LEMMA AllocateThreads ==
  ASSUME ThreadsInv, Allocate
  PROVE  ThreadsInv'
<1>1. PICK f \in pending, t \in Threads : main = "allocate" /\ Assign(f, t)
  BY DEF Allocate
<1>2. /\ pending' = pending \ {f}
      /\ batches' = [batches EXCEPT ![t] = Append(@, f)]
      /\ load' = [load EXCEPT ![t] = @ + size[f]]
      /\ UNCHANGED <<regular, size, option, main, threadNum, counter, fileId, opened, results>>
  BY <1>1 DEF Assign, input
<1>3. /\ regular \subseteq Paths /\ pending \subseteq regular
      /\ batches \in [Threads -> Seq(Paths)] /\ load \in [Threads -> Nat]
      /\ size \in [Paths -> Sizes] /\ Sizes \subseteq Nat
  BY SourcesAssumption DEF ThreadsInv, TypeOK
<1>4. f \in Paths /\ size[f] \in Nat /\ Append(batches[t], f) \in Seq(Paths)
  <2>1. f \in Paths /\ batches[t] \in Seq(Paths)
    BY <1>3
  <2>2. size[f] \in Nat
    BY <1>3, <2>1
  <2>3. QED
    BY <2>1, <2>2
<1>5. batches' \in [Threads -> Seq(Paths)] /\ load' \in [Threads -> Nat] /\ Threads' = Threads
  BY <1>2, <1>3, <1>4 DEF Threads
<1>6. TypeOK'
  BY <1>2, <1>3, <1>5 DEF ThreadsInv, TypeOK
<1>7. QED
  BY <1>1, <1>2, <1>5, <1>6 DEF ThreadsInv

\* A thread goes on to its next path.
LEMMA NextFileThreads ==
  ASSUME ThreadsInv, NEW t \in Threads, Busy(t), NextFile(t)
  PROVE  /\ batches' \in [Threads -> Seq(Paths)]
         /\ fileId' \in [Threads -> Nat \cup {-1}]
         /\ \A u \in Threads : fileId'[u] # -1 => batches'[u] # <<>>
         /\ Head(batches[t]) \in Paths
<1>1. /\ batches \in [Threads -> Seq(Paths)] /\ fileId \in [Threads -> Nat \cup {-1}]
      /\ batches[t] \in Seq(Paths) /\ batches[t] # <<>>
      /\ \A u \in Threads : fileId[u] # -1 => batches[u] # <<>>
  BY DEF ThreadsInv, TypeOK, Busy
<1>2. Tail(batches[t]) \in Seq(Paths) /\ Head(batches[t]) \in Paths
  BY <1>1
<1>3. QED
  BY <1>1, <1>2 DEF NextFile

LEMMA ThreadsStep ==
  ASSUME ThreadsInv, [Next]_vars
  PROVE  ThreadsInv'
<1>1. CASE AllocateToNone \/ StartThreads \/ Join
  <2>1. /\ main # "collect" /\ main' \in {"run", "done", "failed", "crashed"}
        /\ UNCHANGED <<regular, size, option, threadNum, pending, load, batches, counter, fileId,
                       opened, results>>
    BY <1>1 DEF AllocateToNone, StartThreads, Join, input, allocation
  <2>2. TypeOK'
    BY <2>1 DEF ThreadsInv, TypeOK, Threads
  <2>3. QED
    BY <2>1, <2>2 DEF ThreadsInv, Threads
<1>2. CASE UNCHANGED vars
  <2>1. UNCHANGED <<regular, size, option, main, threadNum, pending, load, batches, counter,
                    fileId, opened, results>>
    BY <1>2 DEF vars, input, allocation
  <2>2. TypeOK'
    BY <2>1 DEF ThreadsInv, TypeOK, Threads
  <2>3. QED
    BY <2>1, <2>2 DEF ThreadsInv, Threads
<1>3. ASSUME NEW t \in Threads, Create(t) PROVE ThreadsInv'
  <2>1. /\ main = "run" /\ batches[t] # <<>>
        /\ counter' = counter + 1 /\ fileId' = [fileId EXCEPT ![t] = counter]
        /\ UNCHANGED <<regular, size, option, main, threadNum, pending, load, batches, opened, results>>
    BY <1>3 DEF Create, Idle, input, allocation
  <2>2. counter \in Nat /\ fileId \in [Threads -> Nat \cup {-1}] /\ Threads' = Threads
    BY <2>1 DEF ThreadsInv, TypeOK, Threads
  <2>3. /\ counter' \in Nat /\ fileId' \in [Threads -> Nat \cup {-1}]
        /\ \A u \in Threads : u # t => fileId'[u] = fileId[u]
    BY <2>1, <2>2
  <2>4. TypeOK'
    BY <2>1, <2>2, <2>3 DEF ThreadsInv, TypeOK
  <2>5. QED
    BY <2>1, <2>2, <2>3, <2>4 DEF ThreadsInv
<1>4. ASSUME NEW t \in Threads, CannotOpen(t) PROVE ThreadsInv'
  <2>1. /\ Busy(t) /\ NextFile(t) /\ main = "run"
        /\ UNCHANGED <<regular, size, option, main, threadNum, pending, load, counter, opened, results>>
    BY <1>4 DEF CannotOpen, Busy, input, allocation
  <2>2. /\ batches' \in [Threads -> Seq(Paths)] /\ fileId' \in [Threads -> Nat \cup {-1}]
        /\ \A u \in Threads : fileId'[u] # -1 => batches'[u] # <<>>
    BY <2>1, NextFileThreads
  <2>3. Threads' = Threads
    BY <2>1 DEF Threads
  <2>4. TypeOK'
    BY <2>1, <2>2, <2>3 DEF ThreadsInv, TypeOK
  <2>5. QED
    BY <2>1, <2>2, <2>3, <2>4 DEF ThreadsInv
<1>5. ASSUME NEW t \in Threads, EndSourceFileAction(t) PROVE ThreadsInv'
  <2> DEFINE f == Head(batches[t])
  <2>1. /\ Busy(t) /\ NextFile(t) /\ main = "run" /\ f \in regular /\ opened' = opened \cup {f}
        /\ UNCHANGED <<regular, size, option, threadNum, pending, load, counter>>
        /\ main' \in {"run", "crashed"}
    BY <1>5 DEF EndSourceFileAction, Busy, input, allocation
  <2>2. results' = results \/ results' = [results EXCEPT ![fileId[t]] = f]
    BY <1>5 DEF EndSourceFileAction
  <2>3. /\ batches' \in [Threads -> Seq(Paths)] /\ fileId' \in [Threads -> Nat \cup {-1}]
        /\ \A u \in Threads : fileId'[u] # -1 => batches'[u] # <<>>
    BY <2>1, NextFileThreads
  <2> HIDE DEF f
  <2>4. Threads' = Threads
    BY <2>1 DEF Threads
  <2>5. results' \in [DOMAIN results -> regular \cup {None}] /\ DOMAIN results' = DOMAIN results
    BY <2>1, <2>2 DEF ThreadsInv, TypeOK
  <2>6. TypeOK'
    BY <2>1, <2>3, <2>4, <2>5 DEF ThreadsInv, TypeOK
  <2>7. QED
    BY <2>1, <2>3, <2>4, <2>5, <2>6 DEF ThreadsInv
<1>6. QED
  BY <1>1, <1>2, <1>3, <1>4, <1>5, CollectThreads, AllocateThreads DEF Next, Thread

-----------------------------------------------------------------------------
\* The paths of a batch that have no number yet, and all such paths.
Waiting(t) ==
  {batches[t][i] : i \in {j \in 1..Len(batches[t]) : j > 1 \/ fileId[t] = -1}}

Left == pending \cup UNION {Waiting(t) : t \in Threads}

\* Every path clang is run on is that of a regular file.
NothingSkipped == main # "collect" /\ (regular = Paths \/ threadNum # 1)

\* No path is in two places.
Apart ==
  /\ \A t \in Threads : \A i \in 1..Len(batches[t]) : batches[t][i] \in regular \ pending
  /\ \A t, u \in Threads : \A i \in 1..Len(batches[t]), j \in 1..Len(batches[u]) :
       batches[t][i] = batches[u][j] => t = u /\ i = j

\* The numbers that were handed out and the paths that have none add up, and the
\* slots hold what clang could open.
CompleteInv ==
  NothingSkipped =>
    /\ Apart
    /\ counter + Cardinality(Left) = Cardinality(regular)
    /\ {results[s] : s \in DOMAIN results} \ {None} = opened

\* What has no number is some of the regular files.
LEMMA LeftRegular ==
  ASSUME ThreadsInv, Apart
  PROVE  Left \subseteq regular /\ IsFiniteSet(Left) /\ Cardinality(Left) \in Nat
<1>1. \A t \in Threads : Waiting(t) \subseteq regular
  BY DEF Waiting, Apart
<1>2. Left \subseteq regular /\ regular \subseteq Paths
  BY <1>1 DEF Left, ThreadsInv, TypeOK
<1>3. QED
  BY <1>2, FilesFinite

LEMMA CollectComplete ==
  ASSUME ThreadsInv, ThreadsInv', Collect
  PROVE  CompleteInv'
<1> SUFFICES ASSUME NothingSkipped' PROVE
        /\ Apart'
        /\ counter' + Cardinality(Left') = Cardinality(regular')
        /\ {results'[s] : s \in DOMAIN results'} \ {None} = opened'
  BY DEF CompleteInv
<1>1. /\ main = "collect" /\ UNCHANGED <<regular, counter, opened>>
      /\ results' = [s \in Slots(Cardinality(regular)) |-> None]
      /\ fileId' = [t \in 1..threadNum' |-> -1]
  BY DEF Collect, input
<1>2. counter = 0 /\ opened = {} /\ threadNum = 0 /\ regular \subseteq Paths
  BY <1>1 DEF ThreadsInv, TypeOK
<1>3. {results'[s] : s \in DOMAIN results'} \ {None} = opened'
  BY <1>1, <1>2
<1>4. Threads' = 1..threadNum' /\ \A t \in Threads' : fileId'[t] = -1
  BY <1>1 DEF Threads
<1>5. Apart' /\ Left' = regular
  <2>1. CASE threadNum' = 1 /\ batches' = <<[p \in Paths |-> p]>> /\ UNCHANGED pending
    <3>1. regular = Paths
      BY <1>1, <2>1 DEF NothingSkipped
    <3>2. /\ Threads' = {1} /\ batches'[1] = [p \in 1..N |-> p]
      BY <1>4, <2>1 DEF Paths
    <3>3. /\ Len(batches'[1]) = N
          /\ \A p \in 1..N : batches'[1][p] = p
      BY <3>2, SourcesAssumption
    <3>4. \A t \in Threads' : t = 1
      BY <3>2
    <3>5. pending' = {}
      BY <1>1, <2>1 DEF ThreadsInv
    <3>6. Apart'
      BY <1>1, <3>1, <3>3, <3>4, <3>5 DEF Apart, Paths
    <3>7. Waiting(1)' = 1..N
      <4>1. fileId'[1] = -1
        BY <1>4, <3>2
      <4>2. QED
        BY <3>3, <4>1 DEF Waiting
    <3>8. Left' = Waiting(1)'
      BY <3>2, <3>5 DEF Left
    <3>9. QED
      BY <3>1, <3>6, <3>7, <3>8 DEF Paths
  <2>2. CASE /\ batches' = [t \in 1..threadNum' |-> <<>>] /\ pending' = regular
    <3>1. \A t \in Threads' : Len(batches'[t]) = 0
      BY <1>4, <2>2
    <3>2. \A t \in Threads' : 1..Len(batches'[t]) = {}
      BY <3>1
    <3>3. Apart'
      BY <3>2 DEF Apart
    <3>4. \A t \in Threads' : Waiting(t)' = {}
      BY <3>2 DEF Waiting
    <3>5. QED
      BY <2>2, <3>3, <3>4 DEF Left
  <2>3. QED
    BY <2>1, <2>2 DEF Collect
<1>6. Cardinality(regular) \in Nat
  BY <1>2, FilesFinite
<1>7. QED
  BY <1>1, <1>2, <1>3, <1>5, <1>6

\* A file moves from the list to a batch.
LEMMA AllocateComplete ==
  ASSUME ThreadsInv, ThreadsInv', CompleteInv, Allocate
  PROVE  CompleteInv'
<1>1. PICK f \in pending, t \in Threads : main = "allocate" /\ Assign(f, t)
  BY DEF Allocate
<1>2. /\ pending' = pending \ {f}
      /\ batches' = [batches EXCEPT ![t] = Append(@, f)]
      /\ UNCHANGED <<regular, main, threadNum, counter, fileId, opened, results>>
  BY <1>1 DEF Assign, input
<1>3. Threads' = Threads /\ threadNum # 1 /\ \A u \in Threads : fileId[u] = -1
  BY <1>1, <1>2 DEF ThreadsInv, Threads
<1>4. /\ Apart /\ counter + Cardinality(Left) = Cardinality(regular)
      /\ {results[s] : s \in DOMAIN results} \ {None} = opened
  BY <1>1, <1>3 DEF CompleteInv, NothingSkipped
<1>5. /\ pending \subseteq regular /\ f \in Paths /\ batches \in [Threads -> Seq(Paths)]
      /\ batches[t] \in Seq(Paths) /\ Len(batches[t]) \in Nat
  BY DEF ThreadsInv, TypeOK
<1>6. /\ \A u \in Threads : u # t => batches'[u] = batches[u]
      /\ batches'[t] = Append(batches[t], f)
  BY <1>2, <1>5
<1> DEFINE n == Len(batches[t])
<1>7. /\ Len(batches'[t]) = n + 1 /\ batches'[t][n + 1] = f
      /\ \A i \in 1..n : batches'[t][i] = batches[t][i]
      /\ 1..(n + 1) = 1..n \cup {n + 1} /\ n + 1 \notin 1..n
  BY <1>5, <1>6
<1>8. \A u \in Threads : \A i \in 1..Len(batches'[u]) :
        \/ i \in 1..Len(batches[u]) /\ batches'[u][i] = batches[u][i]
        \/ u = t /\ i = n + 1 /\ batches'[u][i] = f
  BY <1>6, <1>7
<1>9. Apart'
  <2>1. \A u \in Threads : \A i \in 1..Len(batches[u]) :
          batches[u][i] \in regular \ pending /\ batches[u][i] # f
    BY <1>4 DEF Apart
  <2>2. \A u \in Threads : \A i \in 1..Len(batches'[u]) : batches'[u][i] \in regular' \ pending'
    BY <1>2, <1>5, <1>8, <2>1
  <2>3. ASSUME NEW u \in Threads, NEW v \in Threads, NEW i \in 1..Len(batches'[u]),
               NEW j \in 1..Len(batches'[v]), batches'[u][i] = batches'[v][j]
        PROVE  u = v /\ i = j
    <3>1. CASE /\ i \in 1..Len(batches[u]) /\ batches'[u][i] = batches[u][i]
               /\ j \in 1..Len(batches[v]) /\ batches'[v][j] = batches[v][j]
      <4>1. batches[u][i] = batches[v][j]
        BY <2>3, <3>1
      <4>2. QED
        BY <1>4, <3>1, <4>1 DEF Apart
    <3>2. CASE batches'[u][i] = f \/ batches'[v][j] = f
      <4>1. batches'[u][i] = f /\ batches'[v][j] = f
        BY <2>3, <3>2
      <4>2. u = t /\ i = n + 1
        BY <1>8, <2>1, <4>1
      <4>3. v = t /\ j = n + 1
        BY <1>8, <2>1, <4>1
      <4>4. QED
        BY <4>2, <4>3
    <3>3. QED
      BY <1>8, <3>1, <3>2
  <2>4. QED
    BY <1>3, <2>2, <2>3 DEF Apart
<1>10. Left' = Left
  <2>1. \A u \in Threads : u # t => Waiting(u)' = Waiting(u)
    BY <1>2, <1>6 DEF Waiting
  <2>2. Waiting(t)' = Waiting(t) \cup {f}
    <3>1. /\ Waiting(t)' = {batches'[t][i] : i \in 1..(n + 1)}
          /\ Waiting(t) = {batches[t][i] : i \in 1..n}
      BY <1>2, <1>3, <1>7 DEF Waiting
    <3>2. QED
      BY <1>7, <3>1
  <2>3. QED
    BY <1>2, <1>3, <2>1, <2>2 DEF Left
<1>11. QED
  BY <1>2, <1>4, <1>9, <1>10 DEF CompleteInv

\* The first path of a batch gets the next number.
LEMMA CreateComplete ==
  ASSUME ThreadsInv, CompleteInv, NEW t \in Threads, Create(t)
  PROVE  CompleteInv'
<1> SUFFICES ASSUME NothingSkipped' PROVE CompleteInv'
  BY DEF CompleteInv
<1>1. /\ main = "run" /\ fileId[t] = -1 /\ batches[t] # <<>>
      /\ counter' = counter + 1 /\ fileId' = [fileId EXCEPT ![t] = counter]
      /\ UNCHANGED <<regular, main, threadNum, pending, batches, opened, results>>
  BY DEF Create, Idle, input, allocation
<1>2. Threads' = Threads /\ NothingSkipped
  BY <1>1 DEF Threads, NothingSkipped
<1>3. /\ Apart /\ counter + Cardinality(Left) = Cardinality(regular)
      /\ {results[s] : s \in DOMAIN results} \ {None} = opened
  BY <1>2 DEF CompleteInv
<1>4. /\ counter \in Nat /\ counter # -1 /\ fileId \in [Threads -> Nat \cup {-1}]
      /\ batches[t] \in Seq(Paths) /\ Len(batches[t]) \in Nat
      /\ regular \subseteq Paths
  BY DEF ThreadsInv, TypeOK
<1>5. Len(batches[t]) > 0 /\ 1 \in 1..Len(batches[t])
  BY <1>1, <1>4
<1>6. fileId'[t] # -1 /\ \A u \in Threads : u # t => fileId'[u] = fileId[u]
  BY <1>1, <1>4
<1> DEFINE h == batches[t][1]
<1>7. h \notin pending /\ \A u \in Threads : u # t => h \notin Waiting(u)
  BY <1>3, <1>5 DEF Apart, Waiting
<1>8. /\ \A u \in Threads : u # t => Waiting(u)' = Waiting(u)
      /\ h \in Waiting(t) /\ Waiting(t)' = Waiting(t) \ {h}
  <2>1. \A u \in Threads : u # t => Waiting(u)' = Waiting(u)
    BY <1>1, <1>6 DEF Waiting
  <2>2. /\ Waiting(t) = {batches[t][i] : i \in 1..Len(batches[t])}
        /\ Waiting(t)' = {batches[t][i] : i \in {j \in 1..Len(batches[t]) : j > 1}}
    BY <1>1, <1>6 DEF Waiting
  <2>3. \A i \in 1..Len(batches[t]) : i = 1 \/ i > 1
    BY <1>4
  <2>4. \A i \in 1..Len(batches[t]) : batches[t][i] = h <=> i = 1
    BY <1>3, <1>5 DEF Apart
  <2>5. QED
    BY <1>5, <2>1, <2>2, <2>3, <2>4
<1> HIDE DEF h
<1>9. h \in Left /\ Left' = Left \ {h}
  BY <1>1, <1>2, <1>7, <1>8 DEF Left
<1>10. Cardinality(Left') = Cardinality(Left) - 1
  BY <1>3, <1>9, LeftRegular, FS_RemoveElement
<1>11. counter' + Cardinality(Left') = Cardinality(regular')
  <2>1. Cardinality(Left) \in Nat
    BY <1>3, LeftRegular
  <2>2. QED
    BY <1>1, <1>3, <1>4, <1>10, <2>1
<1>12. Apart'
  BY <1>1, <1>2, <1>3 DEF Apart
<1>13. QED
  BY <1>1, <1>3, <1>11, <1>12 DEF CompleteInv

\* A thread goes on to its next path: what has no number stays the same.
LEMMA ReleaseComplete ==
  ASSUME ThreadsInv, Apart, NEW t \in Threads, Busy(t), NextFile(t),
         UNCHANGED <<regular, threadNum, pending>>
  PROVE  Apart' /\ Left' = Left
<1>1. /\ fileId[t] # -1 /\ Threads' = Threads
      /\ fileId' = [fileId EXCEPT ![t] = -1]
      /\ batches' = [batches EXCEPT ![t] = Tail(@)]
  BY DEF Busy, NextFile, Threads
<1>2. /\ fileId \in [Threads -> Nat \cup {-1}] /\ batches \in [Threads -> Seq(Paths)]
      /\ batches[t] \in Seq(Paths) /\ batches[t] # <<>>
  BY <1>1 DEF ThreadsInv, TypeOK
<1> DEFINE n == Len(batches[t])
<1>3. /\ \A u \in Threads : u # t => batches'[u] = batches[u] /\ fileId'[u] = fileId[u]
      /\ batches'[t] = Tail(batches[t]) /\ fileId'[t] = -1
  BY <1>1, <1>2
<1>4. /\ n \in Nat /\ n > 0 /\ Len(batches'[t]) = n - 1
      /\ \A i \in 1..(n - 1) : batches'[t][i] = batches[t][i + 1]
  BY <1>2, <1>3
<1>5. /\ \A i \in 1..(n - 1) : i + 1 \in 1..n /\ i + 1 > 1
      /\ \A i \in 1..n : i > 1 => i - 1 \in 1..(n - 1) /\ (i - 1) + 1 = i
  BY <1>4
<1>6. \A u \in Threads : \A i \in 1..Len(batches'[u]) :
        \/ u # t /\ i \in 1..Len(batches[u]) /\ batches'[u][i] = batches[u][i]
        \/ u = t /\ i \in 1..(n - 1) /\ batches'[u][i] = batches[u][i + 1]
  BY <1>3, <1>4
<1>7. Apart'
  <2>1. \A u \in Threads : \A i \in 1..Len(batches'[u]) : batches'[u][i] \in regular' \ pending'
    BY <1>5, <1>6 DEF Apart
  <2>2. ASSUME NEW u \in Threads, NEW v \in Threads, NEW i \in 1..Len(batches'[u]),
               NEW j \in 1..Len(batches'[v]), batches'[u][i] = batches'[v][j]
        PROVE  u = v /\ i = j
    <3> DEFINE k == IF u = t THEN i + 1 ELSE i
               l == IF v = t THEN j + 1 ELSE j
    <3>1. k \in 1..Len(batches[u]) /\ batches'[u][i] = batches[u][k]
      BY <1>5, <1>6
    <3>2. l \in 1..Len(batches[v]) /\ batches'[v][j] = batches[v][l]
      BY <1>5, <1>6
    <3>3. batches[u][k] = batches[v][l]
      BY <2>2, <3>1, <3>2
    <3> HIDE DEF k, l
    <3>4. u = v /\ k = l
      BY <3>1, <3>2, <3>3 DEF Apart
    <3>5. i \in Int /\ j \in Int
      OBVIOUS
    <3>6. QED
      BY <3>4, <3>5 DEF k, l
  <2>3. QED
    BY <1>1, <2>1, <2>2 DEF Apart
<1>8. \A u \in Threads : Waiting(u)' = Waiting(u)
  <2>1. \A u \in Threads : u # t => Waiting(u)' = Waiting(u)
    BY <1>3 DEF Waiting
  <2>2. /\ Waiting(t) = {batches[t][i] : i \in {j \in 1..n : j > 1}}
        /\ Waiting(t)' = {batches'[t][i] : i \in 1..(n - 1)}
    BY <1>1, <1>3, <1>4 DEF Waiting
  <2>3. ASSUME NEW i \in 1..n, i > 1 PROVE batches[t][i] \in Waiting(t)'
    <3>1. i - 1 \in 1..(n - 1) /\ (i - 1) + 1 = i
      BY <1>5, <2>3
    <3>2. batches'[t][i - 1] = batches[t][i]
      BY <1>4, <3>1
    <3>3. QED
      BY <2>2, <3>1, <3>2
  <2>4. ASSUME NEW i \in 1..(n - 1) PROVE batches'[t][i] \in Waiting(t)
    BY <1>4, <1>5, <2>2
  <2>5. Waiting(t)' = Waiting(t)
    BY <2>2, <2>3, <2>4
  <2>6. QED
    BY <2>1, <2>5
<1>9. QED
  BY <1>1, <1>7, <1>8 DEF Left

\* The number of an action is that of a slot, which is still empty.
LEMMA NumberHasSlot ==
  ASSUME ThreadsInv, SlotInv, CompleteInv, NothingSkipped, NEW t \in Threads, fileId[t] # -1
  PROVE  fileId[t] \in DOMAIN results /\ results[fileId[t]] = None
<1>1. /\ fileId[t] \in Nat /\ counter \in Nat /\ regular \subseteq Paths
      /\ DOMAIN results = Slots(Cardinality(regular))
  BY DEF ThreadsInv, TypeOK, NothingSkipped
<1>2. fileId[t] < counter
  BY DEF SlotInv
<1>3. /\ counter + Cardinality(Left) = Cardinality(regular)
      /\ Cardinality(Left) \in Nat /\ Cardinality(regular) \in Nat
  BY <1>1, LeftRegular, FilesFinite DEF CompleteInv
<1>4. fileId[t] \in DOMAIN results
  BY <1>1, <1>2, <1>3 DEF Slots
<1>5. QED
  BY <1>4 DEF SlotInv

LEMMA EndComplete ==
  ASSUME ThreadsInv, SlotInv, CompleteInv, NEW t \in Threads, EndSourceFileAction(t)
  PROVE  CompleteInv'
<1> SUFFICES ASSUME NothingSkipped' PROVE CompleteInv'
  BY DEF CompleteInv
<1> DEFINE f == Head(batches[t])
           k == fileId[t]
<1>1. /\ Busy(t) /\ NextFile(t) /\ main = "run" /\ fileId[t] # -1 /\ f \in regular
      /\ opened' = opened \cup {f}
      /\ UNCHANGED <<regular, threadNum, pending, counter>>
  BY DEF EndSourceFileAction, Busy, input, allocation
<1>2. NothingSkipped
  BY <1>1 DEF NothingSkipped
<1>3. /\ Apart /\ counter + Cardinality(Left) = Cardinality(regular)
      /\ {results[s] : s \in DOMAIN results} \ {None} = opened
  BY <1>2 DEF CompleteInv
<1>4. k \in DOMAIN results /\ results[k] = None
  BY <1>1, <1>2, NumberHasSlot
<1>5. results' = [results EXCEPT ![k] = f]
  BY <1>4 DEF EndSourceFileAction
<1>6. Apart' /\ Left' = Left
  BY <1>1, <1>3, ReleaseComplete
<1>7. f # None
  BY <1>1, SourcesAssumption DEF ThreadsInv, TypeOK, Paths
<1> HIDE DEF f, k
<1>8. /\ DOMAIN results' = DOMAIN results /\ results'[k] = f
      /\ \A s \in DOMAIN results : s # k => results'[s] = results[s]
  BY <1>4, <1>5
<1>9. {results'[s] : s \in DOMAIN results'} \ {None} = opened'
  BY <1>1, <1>3, <1>4, <1>7, <1>8
<1>10. QED
  BY <1>1, <1>3, <1>6, <1>9 DEF CompleteInv

LEMMA CompleteStep ==
  ASSUME ThreadsInv, ThreadsInv', SlotInv, CompleteInv, [Next]_vars
  PROVE  CompleteInv'
<1>1. CASE AllocateToNone \/ StartThreads \/ Join \/ UNCHANGED vars
  <2>1. /\ main # "collect" \/ main' = main
        /\ UNCHANGED <<regular, threadNum, pending, batches, counter, fileId, opened, results>>
    BY <1>1 DEF AllocateToNone, StartThreads, Join, vars, input, allocation
  <2>2. Threads' = Threads /\ Left' = Left /\ (Apart => Apart')
    <3>1. Threads' = Threads
      BY <2>1 DEF Threads
    <3>2. Left' = Left
      BY <2>1, <3>1 DEF Left, Waiting
    <3>3. Apart => Apart'
      BY <2>1, <3>1 DEF Apart, Waiting
    <3>4. QED
      BY <3>1, <3>2, <3>3
  <2>3. QED
    BY <2>1, <2>2 DEF CompleteInv, NothingSkipped
<1>2. ASSUME NEW t \in Threads, CannotOpen(t) PROVE CompleteInv'
  <2>1. /\ Busy(t) /\ NextFile(t)
        /\ UNCHANGED <<regular, main, threadNum, pending, counter, opened, results>>
    BY <1>2 DEF CannotOpen, input, allocation
  <2>2. QED
    BY <2>1, ReleaseComplete DEF CompleteInv, NothingSkipped
<1>3. QED
  BY <1>1, <1>2, CollectComplete, AllocateComplete, CreateComplete, EndComplete DEF Next, Thread

\* The inductive invariant of the exporter.
LEMMA ExporterInductive == Spec => [](ThreadsInv /\ SlotInv /\ CompleteInv)
<1>1. Init => ThreadsInv /\ SlotInv /\ CompleteInv
  <2> SUFFICES ASSUME Init PROVE ThreadsInv /\ SlotInv /\ CompleteInv
    OBVIOUS
  <2>1. SlotInv
    BY DEF Init, SlotInv, Threads
  <2>2. Threads = {} /\ Cardinality(regular) \in Nat
    BY FilesFinite DEF Init, Threads
  <2>3. TypeOK
    BY <2>2 DEF Init, TypeOK
  <2>4. ThreadsInv /\ CompleteInv
    BY <2>2, <2>3 DEF Init, ThreadsInv, CompleteInv, NothingSkipped
  <2>5. QED
    BY <2>1, <2>4
<1>2. (ThreadsInv /\ SlotInv /\ CompleteInv) /\ [Next]_vars => (ThreadsInv /\ SlotInv /\ CompleteInv)'
  BY ThreadsStep, SlotStep, CompleteStep
<1>3. QED
  BY <1>1, <1>2, PTL DEF Spec

\* The state of the exporter keeps its type; there are never more threads than
\* regular files.
THEOREM ExporterTypeCorrect == Spec => []TypeOK
<1>1. ThreadsInv => TypeOK
  BY DEF ThreadsInv
<1>2. QED
  BY <1>1, ExporterInductive, PTL

\* The output has the result of every file that clang could open and no other,
\* however many threads share the counter and however their steps interleave.
THEOREM ResultsAreComplete == Spec => []ResultsComplete
<1>1. ThreadsInv /\ CompleteInv => ResultsComplete
  BY DEF CompleteInv, NothingSkipped, ResultsComplete
<1>2. QED
  BY <1>1, ExporterInductive, PTL

\* Where no source is skipped, or the skipped ones are left out of the batches, the
\* result of a file is never written beyond the vector.
THEOREM NumbersInRange == Spec => [](regular = Paths \/ threadNum # 1 => SlotInRange)
<1>1. ThreadsInv /\ SlotInv /\ CompleteInv => (regular = Paths \/ threadNum # 1 => SlotInRange)
  <2> SUFFICES ASSUME ThreadsInv, SlotInv, CompleteInv, regular = Paths \/ threadNum # 1,
                      NEW t \in DOMAIN fileId, fileId[t] # -1, Head(batches[t]) \in regular
               PROVE  fileId[t] \in DOMAIN results
    BY DEF SlotInRange
  <2>1. t \in Threads
    BY DEF ThreadsInv, TypeOK
  <2>2. main # "collect"
    BY <2>1 DEF ThreadsInv, Threads
  <2>3. QED
    BY <2>1, <2>2, NumberHasSlot DEF NothingSkipped
<1>2. QED
  BY <1>1, ExporterInductive, PTL

-----------------------------------------------------------------------------
\* A set of numbers that is not empty has a least one.
LEMMA LeastNumber ==
  ASSUME NEW S \in SUBSET Nat, S # {}
  PROVE  Min(S) \in S /\ \A x \in S : Min(S) <= x
<1> DEFINE R == OpToRel(<, Nat)
<1>1. IsWellFoundedOn(R, Nat)
  BY NatLessThanWellFounded
<1>2. PICK x \in S : \A y \in S : ~(<<y, x>> \in R)
  <2> HIDE DEF R
  <2>1. QED
    BY <1>1, WFMin
<1>3. \A y \in S : ~(y < x)
  BY <1>2 DEF OpToRel
<1>4. \A y \in S : x <= y
  BY <1>3
<1>5. QED
  BY <1>4 DEF Min

\* Induction up to n: a set that has 0 and the successor of each of its numbers
\* below n has all of them.
LEMMA UpToInduction ==
  ASSUME NEW n \in Nat, NEW K, 0 \in K, \A k \in 0..n : k \in K /\ k < n => k + 1 \in K
  PROVE  \A k \in 0..n : k \in K
<1> DEFINE T == {k \in 0..n : k \notin K}
           x == Min(T)
<1> SUFFICES ASSUME T # {} PROVE FALSE
  OBVIOUS
<1>1. x \in T /\ \A y \in T : x <= y
  <2>1. T \in SUBSET Nat
    OBVIOUS
  <2> HIDE DEF T
  <2>2. QED
    BY <2>1, LeastNumber
<1> HIDE DEF x
<1>2. x \in 0..n /\ x \notin K /\ x # 0
  BY <1>1
<1>3. x - 1 \in 0..n /\ x - 1 < n /\ (x - 1) + 1 = x /\ ~(x <= x - 1)
  BY <1>2
<1>4. x - 1 \in K
  BY <1>1, <1>3
<1>5. QED
  BY <1>2, <1>3, <1>4

-----------------------------------------------------------------------------
\* u has the sums of v up to each number until n.
Sums(u, v, n) == u = [k \in 0..n |-> IF k = 0 THEN 0 ELSE u[k - 1] + v[k]]

LEMMA SumsExist ==
  ASSUME NEW n \in Nat, NEW v, \A k \in 1..n : v[k] \in Nat
  PROVE  \E u \in [0..n -> Nat] : u[0] = 0 /\ \A k \in 1..n : u[k] = u[k - 1] + v[k]
<1> DEFINE Good(u, m) == u[0] = 0 /\ \A k \in 1..m : u[k] = u[k - 1] + v[k]
           K == {m \in 0..n : \E u \in [0..n -> Nat] : Good(u, m)}
<1>1. 0 \in K
  <2> DEFINE z == [k \in 0..n |-> 0]
  <2>1. z \in [0..n -> Nat] /\ Good(z, 0) /\ 0 \in 0..n
    OBVIOUS
  <2> HIDE DEF z
  <2>2. QED
    BY <2>1
<1>2. ASSUME NEW m \in 0..n, m \in K, m < n PROVE m + 1 \in K
  <2>1. PICK u \in [0..n -> Nat] : Good(u, m)
    BY <1>2
  <2>2. /\ m + 1 \in 0..n /\ m + 1 \in 1..n /\ m + 1 # 0 /\ (m + 1) - 1 = m
        /\ \A k \in 1..(m + 1) : (k \in 1..m \/ k = m + 1) /\ k \in 0..n /\ k - 1 \in 0..n /\ k - 1 # m + 1
        /\ \A k \in 1..m : k # m + 1
    BY <1>2
  <2>3. u[m] \in Nat /\ v[m + 1] \in Nat
    BY <2>2
  <2> DEFINE w == [u EXCEPT ![m + 1] = u[m] + v[m + 1]]
  <2>4. w \in [0..n -> Nat]
    BY <2>2, <2>3
  <2>5. w[m + 1] = u[m] + v[m + 1] /\ \A k \in 0..n : k # m + 1 => w[k] = u[k]
    BY <2>2
  <2> HIDE DEF w
  <2>6. w[0] = 0
    BY <2>1, <2>2, <2>5
  <2>7. ASSUME NEW k \in 1..(m + 1) PROVE w[k] = w[k - 1] + v[k]
    <3>1. w[k - 1] = u[k - 1]
      BY <2>2, <2>5
    <3>2. CASE k \in 1..m
      BY <2>1, <2>2, <2>5, <3>1, <3>2
    <3>3. CASE k = m + 1
      BY <2>2, <2>5, <3>1, <3>3
    <3>4. QED
      BY <2>2, <3>2, <3>3
  <2>8. Good(w, m + 1)
    BY <2>6, <2>7
  <2>9. QED
    BY <2>2, <2>4, <2>8
<1>3. n \in K
  <2> HIDE DEF K
  <2>1. n \in 0..n
    OBVIOUS
  <2>2. QED
    BY <1>1, <1>2, <2>1, UpToInduction
<1>4. QED
  BY <1>3

\* Such sums are unique, so that SumTo is the last of them.
LEMMA SumToIs ==
  ASSUME NEW n \in Nat, NEW v, \A k \in 1..n : v[k] \in Nat,
         NEW w \in [0..n -> Nat], w[0] = 0, \A k \in 1..n : w[k] = w[k - 1] + v[k]
  PROVE  SumTo(v, n) = w[n]
<1> DEFINE u == CHOOSE u : Sums(u, v, n)
<1>1. Sums(w, v, n)
  <2>1. \A k \in 0..n : w[k] = IF k = 0 THEN 0 ELSE w[k - 1] + v[k]
    OBVIOUS
  <2>2. QED
    BY <2>1 DEF Sums
<1>2. Sums(u, v, n)
  BY <1>1
<1>3. SumTo(v, n) = u[n]
  BY DEF SumTo, Sums
<1> HIDE DEF u
<1>4. \A k \in 0..n : u[k] = IF k = 0 THEN 0 ELSE u[k - 1] + v[k]
  BY <1>2 DEF Sums
<1> DEFINE K == {k \in 0..n : u[k] = w[k]}
<1>5. 0 \in K
  BY <1>4
<1>6. ASSUME NEW k \in 0..n, k \in K, k < n PROVE k + 1 \in K
  <2>1. k + 1 \in 0..n /\ k + 1 \in 1..n /\ k + 1 # 0 /\ (k + 1) - 1 = k
    BY <1>6
  <2>2. u[k + 1] = u[k] + v[k + 1] /\ w[k + 1] = w[k] + v[k + 1]
    BY <1>4, <2>1
  <2>3. QED
    BY <1>6, <2>1, <2>2
<1>7. n \in K
  <2> HIDE DEF K
  <2>1. n \in 0..n
    OBVIOUS
  <2>2. QED
    BY <1>5, <1>6, <2>1, UpToInduction
<1>8. QED
  BY <1>3, <1>7

\* The equations of SumTo.
LEMMA SumToFacts ==
  ASSUME NEW n \in Nat, NEW v, \A k \in 1..n : v[k] \in Nat
  PROVE  /\ SumTo(v, 0) = 0
         /\ \A k \in 0..n : SumTo(v, k) \in Nat
         /\ \A k \in 0..n : k < n => SumTo(v, k + 1) = SumTo(v, k) + v[k + 1]
<1>1. PICK u \in [0..n -> Nat] : u[0] = 0 /\ \A k \in 1..n : u[k] = u[k - 1] + v[k]
  BY SumsExist
<1>2. ASSUME NEW m \in 0..n PROVE SumTo(v, m) = u[m]
  <2> DEFINE w == [k \in 0..m |-> u[k]]
  <2>1. m \in Nat /\ \A k \in 0..m : k \in 0..n
    OBVIOUS
  <2>2. /\ \A k \in 1..m : k \in 1..n /\ k \in 0..m /\ k - 1 \in 0..m
        /\ 0 \in 0..m /\ m \in 0..m
    BY <2>1
  <2>3. w \in [0..m -> Nat] /\ w[0] = 0 /\ w[m] = u[m]
    BY <1>1, <2>1, <2>2
  <2>4. \A k \in 1..m : w[k] = w[k - 1] + v[k]
    BY <1>1, <2>2
  <2>5. \A k \in 1..m : v[k] \in Nat
    BY <2>2
  <2> HIDE DEF w
  <2>6. SumTo(v, m) = w[m]
    BY <2>1, <2>3, <2>4, <2>5, SumToIs
  <2>7. QED
    BY <2>3, <2>6
<1>3. SumTo(v, 0) = 0
  BY <1>1, <1>2
<1>4. \A k \in 0..n : SumTo(v, k) \in Nat
  BY <1>2
<1>5. ASSUME NEW k \in 0..n, k < n PROVE SumTo(v, k + 1) = SumTo(v, k) + v[k + 1]
  <2>1. k + 1 \in 0..n /\ k + 1 \in 1..n /\ (k + 1) - 1 = k
    BY <1>5
  <2>2. u[k + 1] = u[k] + v[k + 1]
    BY <1>1, <2>1
  <2>3. QED
    BY <1>2, <2>1, <2>2
<1>6. QED
  BY <1>3, <1>4, <1>5

\* Sums add up term by term.
LEMMA SumToAdds ==
  ASSUME NEW n \in Nat, NEW v, NEW w, NEW z,
         \A k \in 1..n : v[k] \in Nat /\ w[k] \in Nat /\ z[k] = v[k] + w[k]
  PROVE  SumTo(z, n) = SumTo(v, n) + SumTo(w, n)
<1>1. /\ SumTo(v, 0) = 0 /\ SumTo(w, 0) = 0 /\ SumTo(z, 0) = 0
      /\ \A k \in 0..n : SumTo(v, k) \in Nat /\ SumTo(w, k) \in Nat /\ SumTo(z, k) \in Nat
      /\ \A k \in 0..n : k < n => /\ SumTo(v, k + 1) = SumTo(v, k) + v[k + 1]
                                  /\ SumTo(w, k + 1) = SumTo(w, k) + w[k + 1]
                                  /\ SumTo(z, k + 1) = SumTo(z, k) + z[k + 1]
  <2>1. \A k \in 1..n : v[k] \in Nat /\ w[k] \in Nat /\ z[k] \in Nat
    OBVIOUS
  <2>2. QED
    BY <2>1, SumToFacts
<1> DEFINE K == {k \in 0..n : SumTo(z, k) = SumTo(v, k) + SumTo(w, k)}
<1>2. 0 \in K
  BY <1>1
<1>3. ASSUME NEW k \in 0..n, k \in K, k < n PROVE k + 1 \in K
  <2>1. k + 1 \in 0..n /\ k + 1 \in 1..n
    BY <1>3
  <2>2. v[k + 1] \in Nat /\ w[k + 1] \in Nat /\ z[k + 1] = v[k + 1] + w[k + 1]
    BY <2>1
  <2> DEFINE a == SumTo(v, k)
             b == SumTo(w, k)
  <2>3. a \in Nat /\ b \in Nat /\ SumTo(z, k) = a + b
    BY <1>1, <1>3
  <2>4. /\ SumTo(v, k + 1) = a + v[k + 1] /\ SumTo(w, k + 1) = b + w[k + 1]
        /\ SumTo(z, k + 1) = (a + b) + (v[k + 1] + w[k + 1])
    BY <1>1, <1>3, <2>2, <2>3
  <2> HIDE DEF a, b
  <2>5. SumTo(z, k + 1) = SumTo(v, k + 1) + SumTo(w, k + 1)
    BY <2>2, <2>3, <2>4
  <2>6. QED
    BY <2>1, <2>5
<1>4. n \in K
  <2> HIDE DEF K
  <2>1. n \in 0..n
    OBVIOUS
  <2>2. QED
    BY <1>2, <1>3, <2>1, UpToInduction
<1>5. QED
  BY <1>4

\* A sum of terms that are at least a.
LEMMA SumToAtLeast ==
  ASSUME NEW n \in Nat, NEW v, NEW a \in Nat, \A k \in 1..n : v[k] \in Nat /\ a <= v[k]
  PROVE  n * a <= SumTo(v, n)
<1>1. /\ SumTo(v, 0) = 0
      /\ \A k \in 0..n : SumTo(v, k) \in Nat
      /\ \A k \in 0..n : k < n => SumTo(v, k + 1) = SumTo(v, k) + v[k + 1]
  BY SumToFacts
<1> DEFINE K == {k \in 0..n : k * a <= SumTo(v, k)}
<1>2. 0 \in K
  BY <1>1
<1>3. ASSUME NEW k \in 0..n, k \in K, k < n PROVE k + 1 \in K
  <2> DEFINE s == SumTo(v, k)
             x == v[k + 1]
             p == k * a
  <2>1. k + 1 \in 0..n /\ k + 1 \in 1..n
    BY <1>3
  <2>2. s \in Nat /\ x \in Nat /\ a <= x /\ p <= s /\ SumTo(v, k + 1) = s + x
    BY <1>1, <1>3, <2>1
  <2>3. k \in Int /\ a \in Int /\ p \in Int
    OBVIOUS
  <2>4. (k + 1) * a = p + a
    BY <2>3
  <2> HIDE DEF s, x, p
  <2>5. p + a <= s + x
    BY <2>2, <2>3
  <2>6. QED
    BY <2>1, <2>2, <2>4, <2>5
<1>4. n \in K
  <2> HIDE DEF K
  <2>1. n \in 0..n
    OBVIOUS
  <2>2. QED
    BY <1>2, <1>3, <2>1, UpToInduction
<1>5. QED
  BY <1>4

\* A sum of terms that are at most a.
LEMMA SumToAtMost ==
  ASSUME NEW n \in Nat, NEW v, NEW a \in Nat, \A k \in 1..n : v[k] \in Nat /\ v[k] <= a
  PROVE  SumTo(v, n) <= n * a
<1>1. /\ SumTo(v, 0) = 0
      /\ \A k \in 0..n : SumTo(v, k) \in Nat
      /\ \A k \in 0..n : k < n => SumTo(v, k + 1) = SumTo(v, k) + v[k + 1]
  BY SumToFacts
<1> DEFINE K == {k \in 0..n : SumTo(v, k) <= k * a}
<1>2. 0 \in K
  BY <1>1
<1>3. ASSUME NEW k \in 0..n, k \in K, k < n PROVE k + 1 \in K
  <2> DEFINE s == SumTo(v, k)
             x == v[k + 1]
             p == k * a
  <2>1. k + 1 \in 0..n /\ k + 1 \in 1..n
    BY <1>3
  <2>2. s \in Nat /\ x \in Nat /\ x <= a /\ s <= p /\ SumTo(v, k + 1) = s + x
    BY <1>1, <1>3, <2>1
  <2>3. k \in Int /\ a \in Int /\ p \in Int
    OBVIOUS
  <2>4. (k + 1) * a = p + a
    BY <2>3
  <2> HIDE DEF s, x, p
  <2>5. s + x <= p + a
    BY <2>2, <2>3
  <2>6. QED
    BY <2>1, <2>2, <2>4, <2>5
<1>4. n \in K
  <2> HIDE DEF K
  <2>1. n \in 0..n
    OBVIOUS
  <2>2. QED
    BY <1>2, <1>3, <2>1, UpToInduction
<1>5. QED
  BY <1>4

-----------------------------------------------------------------------------
\* The terms that SumOf adds up.
Terms(v, A) == [p \in Paths |-> IF p \in A THEN v[p] ELSE 0]

LEMMA SumOfTerms ==
  ASSUME NEW v \in [Paths -> Nat], NEW A
  PROVE  /\ SumOf(v, A) = SumTo(Terms(v, A), N)
         /\ \A k \in 1..N : Terms(v, A)[k] = IF k \in A THEN v[k] ELSE 0
         /\ \A k \in 1..N : Terms(v, A)[k] \in Nat
         /\ SumOf(v, A) \in Nat /\ N \in Nat
<1>1. SumOf(v, A) = SumTo(Terms(v, A), N)
  BY DEF SumOf, Terms
<1>2. \A k \in 1..N : Terms(v, A)[k] = IF k \in A THEN v[k] ELSE 0
  BY DEF Terms, Paths
<1>3. \A k \in 1..N : Terms(v, A)[k] \in Nat
  BY <1>2 DEF Paths
<1>4. N \in Nat /\ N \in 0..N
  BY SourcesAssumption
<1>5. SumTo(Terms(v, A), N) \in Nat
  BY <1>3, <1>4, SumToFacts
<1>6. QED
  BY <1>1, <1>2, <1>3, <1>4, <1>5

LEMMA SumOfNothing ==
  ASSUME NEW v \in [Paths -> Nat]
  PROVE  SumOf(v, {}) = 0
<1>1. \A k \in 1..N : Terms(v, {})[k] \in Nat /\ Terms(v, {})[k] <= 0
  BY SumOfTerms
<1>2. SumTo(Terms(v, {}), N) <= N * 0
  BY <1>1, SourcesAssumption, SumToAtMost
<1>3. N * 0 = 0
  BY SourcesAssumption
<1>4. QED
  BY <1>2, <1>3, SumOfTerms

LEMMA SumOfUnion ==
  ASSUME NEW v \in [Paths -> Nat], NEW A, NEW B, A \cap B = {}
  PROVE  SumOf(v, A \cup B) = SumOf(v, A) + SumOf(v, B)
<1>1. \A k \in 1..N : /\ Terms(v, A)[k] \in Nat /\ Terms(v, B)[k] \in Nat
                      /\ Terms(v, A \cup B)[k] = Terms(v, A)[k] + Terms(v, B)[k]
  <2> SUFFICES ASSUME NEW k \in 1..N
               PROVE  /\ Terms(v, A)[k] \in Nat /\ Terms(v, B)[k] \in Nat
                      /\ Terms(v, A \cup B)[k] = Terms(v, A)[k] + Terms(v, B)[k]
    OBVIOUS
  <2>1. /\ Terms(v, A)[k] = IF k \in A THEN v[k] ELSE 0
        /\ Terms(v, B)[k] = IF k \in B THEN v[k] ELSE 0
        /\ Terms(v, A \cup B)[k] = IF k \in A \cup B THEN v[k] ELSE 0
        /\ v[k] \in Nat
    BY SumOfTerms DEF Paths
  <2>2. QED
    BY <2>1
<1>2. SumTo(Terms(v, A \cup B), N) = SumTo(Terms(v, A), N) + SumTo(Terms(v, B), N)
  BY <1>1, SourcesAssumption, SumToAdds
<1>3. QED
  BY <1>2, SumOfTerms

\* A single term.
LEMMA SumOfOne ==
  ASSUME NEW v \in [Paths -> Nat], NEW p \in Paths
  PROVE  SumOf(v, {p}) = v[p]
<1> DEFINE z == Terms(v, {p})
           K == {k \in 0..N : SumTo(z, k) = IF k < p THEN 0 ELSE v[p]}
<1>1. /\ N \in Nat /\ p \in 1..N /\ v[p] \in Nat /\ SumOf(v, {p}) = SumTo(z, N)
      /\ \A k \in 1..N : z[k] = (IF k = p THEN v[p] ELSE 0) /\ z[k] \in Nat
  BY SumOfTerms DEF Paths
<1> HIDE DEF z
<1>2. /\ SumTo(z, 0) = 0 /\ \A k \in 0..N : SumTo(z, k) \in Nat
      /\ \A k \in 0..N : k < N => SumTo(z, k + 1) = SumTo(z, k) + z[k + 1]
  BY <1>1, SumToFacts
<1>3. 0 \in K
  BY <1>1, <1>2
<1>4. ASSUME NEW k \in 0..N, k \in K, k < N PROVE k + 1 \in K
  <2>1. k + 1 \in 0..N /\ k + 1 \in 1..N /\ k \in Nat
    BY <1>1, <1>4
  <2>2. /\ SumTo(z, k + 1) = SumTo(z, k) + z[k + 1]
        /\ SumTo(z, k) = IF k < p THEN 0 ELSE v[p]
        /\ z[k + 1] = IF k + 1 = p THEN v[p] ELSE 0
    BY <1>1, <1>2, <1>4, <2>1
  <2>3. CASE k + 1 < p
    BY <1>1, <2>1, <2>2, <2>3
  <2>4. CASE k + 1 = p
    BY <1>1, <2>1, <2>2, <2>4
  <2>5. CASE k + 1 > p
    BY <1>1, <2>1, <2>2, <2>5
  <2>6. QED
    BY <1>1, <2>1, <2>3, <2>4, <2>5
<1>5. N \in K
  <2> HIDE DEF K
  <2>1. N \in 0..N
    BY <1>1
  <2>2. QED
    BY <1>1, <1>3, <1>4, <2>1, UpToInduction
<1>6. ~(N < p)
  BY <1>1
<1>7. QED
  BY <1>1, <1>5, <1>6

\* One more term, and what follows for parts of a set.
LEMMA SumOfMore ==
  ASSUME NEW v \in [Paths -> Nat], NEW A, NEW p \in Paths, p \notin A
  PROVE  SumOf(v, A \cup {p}) = SumOf(v, A) + v[p]
<1>1. A \cap {p} = {}
  OBVIOUS
<1>2. SumOf(v, A \cup {p}) = SumOf(v, A) + SumOf(v, {p})
  BY <1>1, SumOfUnion
<1>3. QED
  BY <1>2, SumOfOne

LEMMA SumOfPart ==
  ASSUME NEW v \in [Paths -> Nat], NEW A, NEW B, A \subseteq B
  PROVE  SumOf(v, A) <= SumOf(v, B)
<1>1. B = A \cup (B \ A) /\ A \cap (B \ A) = {}
  OBVIOUS
<1>2. SumOf(v, A \cup (B \ A)) = SumOf(v, A) + SumOf(v, B \ A)
  BY <1>1, SumOfUnion
<1>3. SumOf(v, A) \in Nat /\ SumOf(v, B \ A) \in Nat
  BY SumOfTerms
<1>4. SumOf(v, B) = SumOf(v, A) + SumOf(v, B \ A)
  BY <1>1, <1>2
<1>5. QED
  BY <1>3, <1>4

LEMMA SumOfTwo ==
  ASSUME NEW v \in [Paths -> Nat], NEW p \in Paths, NEW q \in Paths, p # q
  PROVE  SumOf(v, {p, q}) = v[p] + v[q]
<1>1. {p, q} = {p} \cup {q} /\ q \notin {p}
  OBVIOUS
<1>2. SumOf(v, {p} \cup {q}) = SumOf(v, {p}) + v[q]
  BY <1>1, SumOfMore
<1>3. QED
  BY <1>1, <1>2, SumOfOne

LEMMA SumOfThree ==
  ASSUME NEW v \in [Paths -> Nat], NEW p \in Paths, NEW q \in Paths, NEW r \in Paths,
         p # q, r \notin {p, q}
  PROVE  SumOf(v, {p, q, r}) = v[p] + v[q] + v[r]
<1>1. {p, q, r} = {p, q} \cup {r}
  OBVIOUS
<1>2. SumOf(v, {p, q} \cup {r}) = SumOf(v, {p, q}) + v[r]
  BY SumOfMore
<1>3. QED
  BY <1>1, <1>2, SumOfTwo

\* The sums over the parts of a set add up to the sum over it.
LEMMA SumOfParts ==
  ASSUME NEW n \in Nat, NEW v \in [Paths -> Nat], NEW part,
         \A t, u \in 1..n : t # u => part[t] \cap part[u] = {},
         NEW sums, \A t \in 1..n : sums[t] = SumOf(v, part[t]),
         NEW whole, \A p : p \in whole <=> \E t \in 1..n : p \in part[t]
  PROVE  SumTo(sums, n) = SumOf(v, whole)
<1> DEFINE U(k) == UNION {part[t] : t \in 1..k}
           K == {k \in 0..n : SumTo(sums, k) = SumOf(v, U(k))}
<1>1. \A t \in 1..n : sums[t] \in Nat
  BY SumOfTerms
<1>2. /\ SumTo(sums, 0) = 0 /\ \A k \in 0..n : SumTo(sums, k) \in Nat
      /\ \A k \in 0..n : k < n => SumTo(sums, k + 1) = SumTo(sums, k) + sums[k + 1]
  BY <1>1, SumToFacts
<1>3. 0 \in K
  <2>1. U(0) = {} /\ 0 \in 0..n
    OBVIOUS
  <2> HIDE DEF U
  <2>2. SumOf(v, U(0)) = 0
    BY <2>1, SumOfNothing
  <2>3. QED
    BY <1>2, <2>1, <2>2
<1>4. ASSUME NEW k \in 0..n, k \in K, k < n PROVE k + 1 \in K
  <2>1. /\ k + 1 \in 0..n /\ k + 1 \in 1..n /\ 1..(k + 1) = 1..k \cup {k + 1}
        /\ \A t \in 1..k : t \in 1..n /\ t # k + 1
    BY <1>4
  <2>2. U(k + 1) = U(k) \cup part[k + 1]
    BY <2>1
  <2>3. U(k) \cap part[k + 1] = {}
    BY <2>1
  <2> HIDE DEF U
  <2>4. SumOf(v, U(k + 1)) = SumOf(v, U(k)) + SumOf(v, part[k + 1])
    BY <2>2, <2>3, SumOfUnion
  <2>5. SumTo(sums, k + 1) = SumTo(sums, k) + sums[k + 1] /\ SumTo(sums, k) = SumOf(v, U(k))
    BY <1>2, <1>4
  <2>6. QED
    BY <2>1, <2>4, <2>5
<1>5. n \in K
  <2> HIDE DEF K
  <2>1. n \in 0..n
    OBVIOUS
  <2>2. QED
    BY <1>3, <1>4, <2>1, UpToInduction
<1>6. U(n) = whole
  OBVIOUS
<1> HIDE DEF U
<1>7. QED
  BY <1>5, <1>6

-----------------------------------------------------------------------------
\* The files of all batches, and the file f that is next.
Allocated(B, n) == UNION {B[t] : t \in 1..n}
UpTo(B, n, f) == Allocated(B, n) \cup {f}

\* n batches B, of which none shares a file with another, have the loads l under
\* the sizes v; f is in none of them, and the assignment a of these files to n
\* threads has no load above C.
Distribution(n, v, B, l, f, a, C) ==
  /\ n \in Nat \ {0} /\ C \in Nat /\ v \in [Paths -> Nat] /\ f \in Paths
  /\ \A t \in 1..n : B[t] \subseteq Paths /\ f \notin B[t] /\ l[t] = SumOf(v, B[t])
  /\ \A t, u \in 1..n : t # u => B[t] \cap B[u] = {}
  /\ \A p \in UpTo(B, n, f) : a[p] \in 1..n
  /\ \A u \in 1..n : SumOf(v, {p \in UpTo(B, n, f) : a[p] = u}) <= C

\* What the batches weigh, and what the threads of a do, if a file p weighs w[p].
BatchWeights(n, B, w) == [u \in 1..n |-> SumOf(w, B[u])]
ThreadWeights(n, B, f, a, w) == [u \in 1..n |-> SumOf(w, {p \in UpTo(B, n, f) : a[p] = u})]

\* Any weights w of the files add up to the same in both: over the batches and f, and
\* over the threads of a.
LEMMA WeightsAgree ==
  ASSUME NEW n, NEW v, NEW B, NEW l, NEW f, NEW a, NEW C, Distribution(n, v, B, l, f, a, C),
         NEW w \in [Paths -> Nat]
  PROVE  SumTo(ThreadWeights(n, B, f, a, w), n) = SumTo(BatchWeights(n, B, w), n) + w[f]
<1> DEFINE D == [u \in 1..n |-> {p \in UpTo(B, n, f) : a[p] = u}]
           byA == [u \in 1..n |-> SumOf(w, D[u])]
           byB == BatchWeights(n, B, w)
<1>1. /\ n \in Nat /\ f \in Paths /\ \A p \in UpTo(B, n, f) : a[p] \in 1..n
      /\ \A t, u \in 1..n : t # u => B[t] \cap B[u] = {}
      /\ \A t \in 1..n : f \notin B[t]
  BY DEF Distribution
<1>2. f \notin Allocated(B, n)
  BY <1>1 DEF Allocated
<1>3. \A u \in 1..n : byB[u] = SumOf(w, B[u])
  BY DEF BatchWeights
<1>4. SumTo(byB, n) = SumOf(w, Allocated(B, n))
  <2>1. \A p : p \in Allocated(B, n) <=> \E u \in 1..n : p \in B[u]
    BY DEF Allocated
  <2> HIDE DEF byB, byA, D
  <2>2. QED
    BY <1>1, <1>3, <2>1, SumOfParts
<1>5. SumOf(w, UpTo(B, n, f)) = SumOf(w, Allocated(B, n)) + w[f]
  BY <1>1, <1>2, SumOfMore DEF UpTo
<1>6. \A u \in 1..n : byA[u] = SumOf(w, D[u])
  OBVIOUS
<1>7. \A t, u \in 1..n : t # u => D[t] \cap D[u] = {}
  OBVIOUS
<1>8. \A p : p \in UpTo(B, n, f) <=> \E u \in 1..n : p \in D[u]
  BY <1>1
<1>9. SumTo(byA, n) = SumOf(w, UpTo(B, n, f))
  <2> HIDE DEF byA, byB, D
  <2>1. QED
    BY <1>1, <1>6, <1>7, <1>8, SumOfParts
<1>10. byA = ThreadWeights(n, B, f, a, w)
  BY DEF ThreadWeights
<1>11. SumTo(byA, n) = SumTo(byB, n) + w[f]
  <2> HIDE DEF byA, byB, D
  <2>1. QED
    BY <1>4, <1>5, <1>9
<1> HIDE DEF byA
<1>12. QED
  BY <1>10, <1>11

\* A thread whose load is least has room for the file, on the average.
LEMMA Average ==
  ASSUME NEW n, NEW v, NEW B, NEW l, NEW f, NEW a, NEW C, Distribution(n, v, B, l, f, a, C),
         NEW t \in 1..n, \A u \in 1..n : l[t] <= l[u]
  PROVE  n * l[t] + v[f] <= n * C
<1> DEFINE byA == ThreadWeights(n, B, f, a, v)
           byB == BatchWeights(n, B, v)
<1>1. n \in Nat /\ C \in Nat /\ v \in [Paths -> Nat] /\ v[f] \in Nat
  BY DEF Distribution
<1>2. \A u \in 1..n : byB[u] \in Nat /\ l[t] <= byB[u]
  BY <1>1, SumOfTerms DEF Distribution, BatchWeights
<1>3. \A u \in 1..n : byA[u] \in Nat /\ byA[u] <= C
  BY <1>1, SumOfTerms DEF Distribution, ThreadWeights
<1>4. l[t] \in Nat
  BY <1>1, SumOfTerms DEF Distribution
<1>5. SumTo(byA, n) = SumTo(byB, n) + v[f]
  BY <1>1, WeightsAgree
<1> HIDE DEF byA, byB
<1>6. SumTo(byA, n) <= n * C /\ SumTo(byA, n) \in Nat
  <2>1. n \in 0..n
    BY <1>1
  <2>2. SumTo(byA, n) \in Nat
    BY <1>1, <1>3, <2>1, SumToFacts
  <2>3. QED
    BY <1>1, <1>3, <2>2, SumToAtMost
<1>7. n * l[t] <= SumTo(byB, n) /\ SumTo(byB, n) \in Nat
  <2> DEFINE L == l[t]
             b == SumTo(byB, n)
  <2>1. n \in 0..n /\ L \in Nat /\ \A u \in 1..n : byB[u] \in Nat /\ L <= byB[u]
    BY <1>1, <1>2, <1>4
  <2>2. b \in Nat
    BY <1>1, <2>1, SumToFacts
  <2> HIDE DEF L
  <2>3. n * L <= b
    BY <1>1, <2>1, SumToAtLeast
  <2>4. QED
    BY <2>2, <2>3 DEF L
<1> DEFINE x == n * l[t]
           y == n * C
<1>8. x \in Int /\ y \in Int
  BY <1>1, <1>4
<1> HIDE DEF x, y
<1>9. x + v[f] <= y
  BY <1>1, <1>5, <1>6, <1>7, <1>8 DEF x, y
<1>10. QED
  BY <1>9 DEF x, y
\* Such a thread has room for the file, if that is more than a third of C and no
\* file before it is smaller.  Otherwise let a file weigh 2 if it does not fit
\* together with f, and 1 if it does.  Every batch weighs at least 2: a batch of one file
\* has one that does not fit.  But no thread of a weighs more than 2: it has at
\* most two files, and one that does not fit is alone.
LEMMA Fits ==
  ASSUME NEW n, NEW v, NEW B, NEW l, NEW f, NEW a, NEW C, Distribution(n, v, B, l, f, a, C),
         NEW t \in 1..n, \A u \in 1..n : l[t] <= l[u],
         \A p \in Allocated(B, n) : v[f] <= v[p], C < 3 * v[f]
  PROVE  l[t] + v[f] <= C
<1> DEFINE w == [p \in Paths |-> IF C < v[p] + v[f] THEN 2 ELSE 1]
           byA == ThreadWeights(n, B, f, a, w)
           byB == BatchWeights(n, B, w)
<1>1. /\ n \in Nat /\ C \in Nat /\ v \in [Paths -> Nat] /\ f \in Paths /\ v[f] \in Nat
      /\ \A u \in 1..n : B[u] \subseteq Paths /\ l[u] = SumOf(v, B[u])
      /\ \A u \in 1..n : SumOf(v, {p \in UpTo(B, n, f) : a[p] = u}) <= C
      /\ \A p \in UpTo(B, n, f) : a[p] \in 1..n
  BY DEF Distribution
<1>2. \A u \in 1..n : l[u] \in Nat
  BY <1>1, SumOfTerms
<1>3. /\ \A p \in UpTo(B, n, f) : p \in Paths /\ v[f] <= v[p] /\ v[p] \in Nat
      /\ f \in UpTo(B, n, f)
      /\ \A u \in 1..n : B[u] \subseteq UpTo(B, n, f)
  BY <1>1 DEF UpTo, Allocated
<1>4. /\ w \in [Paths -> Nat]
      /\ \A p \in Paths : w[p] = IF C < v[p] + v[f] THEN 2 ELSE 1
  OBVIOUS
<1>5. SumTo(byA, n) = SumTo(byB, n) + w[f]
  <2> HIDE DEF w
  <2>1. QED
    BY <1>4, WeightsAgree
<1> HIDE DEF w
<1> SUFFICES ASSUME ~(l[t] + v[f] <= C) PROVE FALSE
  OBVIOUS
<1>6. C < l[t] + v[f]
  BY <1>1, <1>2
<1>7. ASSUME NEW u \in 1..n PROVE 2 <= SumOf(w, B[u])
  <2>1. l[u] = SumOf(v, B[u]) /\ C < l[u] + v[f] /\ l[u] \in Nat
    BY <1>1, <1>2, <1>6
  <2>2. B[u] # {}
    <3> SUFFICES ASSUME B[u] = {} PROVE FALSE
      OBVIOUS
    <3>1. C < v[f]
      BY <1>1, <2>1, SumOfNothing
    <3>2. SumOf(v, {f}) <= SumOf(v, {p \in UpTo(B, n, f) : a[p] = a[f]})
      BY <1>1, <1>3, SumOfPart
    <3>3. SumOf(v, {f}) = v[f] /\ SumOf(v, {p \in UpTo(B, n, f) : a[p] = a[f]}) \in Nat
      BY <1>1, SumOfOne, SumOfTerms
    <3>4. SumOf(v, {p \in UpTo(B, n, f) : a[p] = a[f]}) <= C
      BY <1>1, <1>3
    <3>5. QED
      BY <1>1, <3>1, <3>2, <3>3, <3>4
  <2>3. PICK p \in B[u] : TRUE
    BY <2>2
  <2>4. p \in Paths /\ v[p] \in Nat
    BY <1>1
  <2>5. CASE B[u] = {p}
    <3>1. l[u] = v[p]
      BY <1>1, <2>1, <2>4, <2>5, SumOfOne
    <3>2. w[p] = 2
      BY <1>4, <2>1, <2>4, <3>1
    <3>3. QED
      BY <1>4, <2>4, <2>5, <3>2, SumOfOne
  <2>6. CASE B[u] # {p}
    <3>1. PICK q \in B[u] : q # p
      BY <2>6
    <3>2. q \in Paths /\ {p, q} \subseteq B[u]
      BY <1>1
    <3>3. SumOf(w, {p, q}) = w[p] + w[q]
      BY <1>4, <2>4, <3>1, <3>2, SumOfTwo
    <3>4. SumOf(w, {p, q}) <= SumOf(w, B[u])
      BY <1>4, <3>2, SumOfPart
    <3>5. w[p] \in {1, 2} /\ w[q] \in {1, 2} /\ SumOf(w, B[u]) \in Nat
      BY <1>4, <2>4, <3>2, SumOfTerms
    <3>6. QED
      BY <3>3, <3>4, <3>5
  <2>7. QED
    BY <2>5, <2>6
<1>8. ASSUME NEW u \in 1..n PROVE SumOf(w, {p \in UpTo(B, n, f) : a[p] = u}) <= 2
  <2> DEFINE D == {p \in UpTo(B, n, f) : a[p] = u}
  <2>1. D \subseteq UpTo(B, n, f) /\ SumOf(v, D) <= C
    BY <1>1
  <2> HIDE DEF D
  <2>2. SumOf(v, D) \in Nat /\ SumOf(w, D) \in Nat
    BY <1>1, <1>4, SumOfTerms
  <2>3. ASSUME D = {} PROVE SumOf(w, D) <= 2
    <3>1. SumOf(w, {}) = 0
      BY <1>4, SumOfNothing
    <3>2. QED
      BY <2>3, <3>1
  <2>4. ASSUME NEW p \in D PROVE SumOf(w, D) <= 2
    <3>1. p \in Paths /\ v[p] \in Nat /\ v[f] <= v[p]
      BY <1>3, <2>1
    <3>2. CASE D = {p}
      <4>1. SumOf(w, D) = w[p]
        BY <1>4, <3>1, <3>2, SumOfOne
      <4>2. QED
        BY <1>4, <3>1, <4>1
    <3>3. ASSUME NEW q \in D, q # p PROVE SumOf(w, D) <= 2
      <4>1. q \in Paths /\ v[q] \in Nat /\ v[f] <= v[q]
        BY <1>3, <2>1
      <4>2. v[p] + v[q] <= C
        <5>1. SumOf(v, {p, q}) = v[p] + v[q]
          BY <1>1, <3>1, <3>3, <4>1, SumOfTwo
        <5>2. {p, q} \subseteq D
          BY <3>3
        <5>3. SumOf(v, {p, q}) <= SumOf(v, D)
          BY <1>1, <5>2, SumOfPart
        <5>4. QED
          BY <1>1, <2>1, <2>2, <3>1, <4>1, <5>1, <5>3
      <4>3. D = {p, q}
        <5> SUFFICES ASSUME NEW r \in D, r \notin {p, q} PROVE FALSE
          BY <3>3
        <5>1. r \in Paths /\ v[r] \in Nat /\ v[f] <= v[r] /\ {p, q, r} \subseteq D
          BY <1>3, <2>1, <3>3
        <5>2. SumOf(v, {p, q, r}) = v[p] + v[q] + v[r]
          BY <1>1, <3>1, <3>3, <4>1, <5>1, SumOfThree
        <5>3. SumOf(v, {p, q, r}) <= SumOf(v, D)
          BY <1>1, <5>1, SumOfPart
        <5>4. QED
          BY <1>1, <2>1, <2>2, <3>1, <4>1, <5>1, <5>2, <5>3
      <4>4. ~(C < v[p] + v[f]) /\ ~(C < v[q] + v[f])
        BY <1>1, <3>1, <4>1, <4>2
      <4>5. w[p] = 1 /\ w[q] = 1
        BY <1>4, <3>1, <4>1, <4>4
      <4>6. SumOf(w, D) = w[p] + w[q]
        BY <1>4, <3>1, <3>3, <4>1, <4>3, SumOfTwo
      <4>7. QED
        BY <4>5, <4>6
    <3>4. QED
      BY <3>2, <3>3
  <2>5. SumOf(w, D) <= 2
    BY <2>3, <2>4
  <2>6. QED
    BY <2>5 DEF D
<1>9. /\ \A u \in 1..n : byA[u] \in Nat /\ byA[u] <= 2
      /\ \A u \in 1..n : byB[u] \in Nat /\ 2 <= byB[u]
  BY <1>4, <1>7, <1>8, SumOfTerms DEF ThreadWeights, BatchWeights
<1> HIDE DEF byA, byB
<1>10. SumTo(byA, n) <= n * 2 /\ n * 2 <= SumTo(byB, n)
  BY <1>1, <1>9, SumToAtMost, SumToAtLeast
<1>11. SumTo(byA, n) \in Nat /\ SumTo(byB, n) \in Nat
  <2>1. n \in 0..n
    BY <1>1
  <2>2. QED
    BY <1>1, <1>9, <2>1, SumToFacts
<1>12. w[f] \in {1, 2}
  BY <1>1, <1>4
<1>13. QED
  BY <1>1, <1>5, <1>10, <1>11, <1>12

-----------------------------------------------------------------------------
\* The factor of the bound, for a file that is small beside C and for a load that
\* C has room for.
LEMMA ProductOfNaturals ==
  ASSUME NEW x \in Nat, NEW y \in Nat
  PROVE  x * y \in Nat
  OBVIOUS

LEMMA SmallWithinBound ==
  ASSUME NEW n \in Nat \ {0}, NEW x \in Nat, NEW s \in Nat, NEW C \in Nat,
         n * x + s <= n * C, 3 * s <= C
  PROVE  3 * n * (x + s) <= (4 * n - 1) * C
<1> DEFINE nx == n * x
           ns == n * s
           nC == n * C
<1>1. nx \in Int /\ ns \in Int /\ nC \in Int
  OBVIOUS
<1>2. (n - 1) * (C - 3 * s) \in Nat
  <2>1. n - 1 \in Nat /\ C - 3 * s \in Nat
    OBVIOUS
  <2>2. QED
    BY <2>1, ProductOfNaturals
<1>3. (n - 1) * (C - 3 * s) = nC - 3 * ns - C + 3 * s
  OBVIOUS
<1>4. 3 * n * (x + s) = 3 * nx + 3 * ns /\ (4 * n - 1) * C = 4 * nC - C
  OBVIOUS
<1>5. nx + s <= nC
  OBVIOUS
<1> HIDE DEF nx, ns, nC
<1>6. nC - 3 * ns - C + 3 * s >= 0
  BY <1>2, <1>3
<1>7. QED
  BY <1>1, <1>4, <1>5, <1>6

LEMMA RoomWithinBound ==
  ASSUME NEW n \in Nat \ {0}, NEW x \in Nat, NEW C \in Nat, x <= C
  PROVE  3 * n * x <= (4 * n - 1) * C
<1> DEFINE nx == n * x
           nC == n * C
<1>1. nx \in Int /\ nC \in Int
  OBVIOUS
<1>2. n * (C - x) \in Nat /\ (n - 1) * C \in Nat
  <2>1. n - 1 \in Nat /\ C - x \in Nat
    OBVIOUS
  <2>2. QED
    BY <2>1, ProductOfNaturals
<1>3. n * (C - x) = nC - nx /\ (n - 1) * C = nC - C
  OBVIOUS
<1>4. 3 * n * x = 3 * nx /\ (4 * n - 1) * C = 4 * nC - C
  OBVIOUS
<1> HIDE DEF nx, nC
<1>5. QED
  BY <1>1, <1>2, <1>3, <1>4

-----------------------------------------------------------------------------
Batch(t) == {batches[t][i] : i \in 1..Len(batches[t])}

\* No thread has more than C if the files are distributed by a.
Within(a, C) == \A t \in Threads : LoadOf(a, t) <= C

\* The loads are those of the batches, and the files are allocated by falling size.
Sorted ==
  /\ \A t \in Threads : load[t] = SumOf(size, Batch(t))
  /\ \A t \in Threads : \A p \in Batch(t), g \in pending : size[g] <= size[p]

\* As long as all files are larger than a third of C, the threads have room for
\* them if any distribution has.
LargeFit ==
  \A a \in [regular -> Threads], C \in Nat :
    (Within(a, C) /\ \A t \in Threads : \A p \in Batch(t) : C < 3 * size[p])
      => \A t \in Threads : load[t] <= C

\* The bound, for every distribution in the place of the best one.
Bounded ==
  \A a \in [regular -> Threads], C \in Nat :
    Within(a, C) => \A t \in Threads : 3 * threadNum * load[t] <= (4 * threadNum - 1) * C

LoadInv ==
  /\ main = "allocate" /\ threadNum > 1 => Sorted /\ LargeFit
  /\ threadNum > 1 => Bounded

\* What the invariants say of the batches while files are allocated.
LEMMA BatchesApart ==
  ASSUME ThreadsInv, CompleteInv, main = "allocate"
  PROVE  /\ \A t \in Threads : Batch(t) \subseteq regular \ pending
         /\ \A t, u \in Threads : t # u => Batch(t) \cap Batch(u) = {}
         /\ regular \subseteq Paths /\ pending \subseteq regular
         /\ size \in [Paths -> Nat] /\ load \in [Threads -> Nat]
         /\ threadNum \in Nat
<1>1. NothingSkipped /\ TypeOK
  BY DEF ThreadsInv, NothingSkipped
<1>2. Apart
  BY <1>1 DEF CompleteInv
<1>3. /\ \A t \in Threads : Batch(t) \subseteq regular \ pending
      /\ \A t, u \in Threads : t # u => Batch(t) \cap Batch(u) = {}
  BY <1>2 DEF Apart, Batch
<1>4. size \in [Paths -> Nat]
  BY <1>1, SourcesAssumption DEF TypeOK
<1>5. Cardinality(regular) \in Nat
  BY <1>1, FilesFinite DEF TypeOK
<1>6. QED
  BY <1>1, <1>3, <1>4, <1>5 DEF TypeOK

\* The next file goes to a thread whose load is least.
LEMMA AllocateBounded ==
  ASSUME ThreadsInv, CompleteInv, LoadInv, Allocate, threadNum > 1
  PROVE  Sorted' /\ LargeFit' /\ Bounded'
<1>1. PICK f \in pending, t \in Threads :
        /\ main = "allocate" /\ Assign(f, t)
        /\ \A g \in pending : size[g] <= size[f]
        /\ \A u \in Threads : load[t] <= load[u]
  BY DEF Allocate
<1>2. /\ pending' = pending \ {f}
      /\ batches' = [batches EXCEPT ![t] = Append(@, f)]
      /\ load' = [load EXCEPT ![t] = @ + size[f]]
      /\ UNCHANGED <<regular, size, main, threadNum>>
  BY <1>1 DEF Assign, input
<1>3. /\ \A u \in Threads : Batch(u) \subseteq regular \ pending
      /\ \A u, x \in Threads : u # x => Batch(u) \cap Batch(x) = {}
      /\ regular \subseteq Paths /\ pending \subseteq regular
      /\ size \in [Paths -> Nat] /\ load \in [Threads -> Nat]
      /\ threadNum \in Nat
  BY <1>1, BatchesApart
<1>4. Sorted /\ LargeFit /\ Bounded
  BY <1>1 DEF LoadInv
<1>5. f \in Paths /\ f \in regular /\ size[f] \in Nat /\ Threads' = Threads /\ Threads = 1..threadNum
  BY <1>2, <1>3 DEF Threads
<1>6. /\ Batch(t)' = Batch(t) \cup {f} /\ f \notin Batch(t)
      /\ \A u \in Threads : u # t => Batch(u)' = Batch(u)
  <2>1. batches \in [Threads -> Seq(Paths)]
    BY DEF ThreadsInv, TypeOK
  <2>2. batches[t] \in Seq(Paths) /\ Len(batches[t]) \in Nat
    BY <2>1
  <2>3. /\ \A u \in Threads : u # t => batches'[u] = batches[u]
        /\ batches'[t] = Append(batches[t], f)
    BY <1>2, <2>1
  <2> DEFINE m == Len(batches[t])
  <2>4. /\ Len(batches'[t]) = m + 1 /\ batches'[t][m + 1] = f
        /\ \A i \in 1..m : batches'[t][i] = batches[t][i]
        /\ 1..(m + 1) = 1..m \cup {m + 1}
    BY <1>5, <2>2, <2>3
  <2>5. Batch(t)' = Batch(t) \cup {f}
    BY <2>4 DEF Batch
  <2>6. f \notin Batch(t)
    BY <1>3 DEF Batch
  <2>7. \A u \in Threads : u # t => Batch(u)' = Batch(u)
    BY <2>3 DEF Batch
  <2>8. QED
    BY <2>5, <2>6, <2>7
<1>7. /\ load'[t] = load[t] + size[f] /\ load[t] \in Nat /\ load' \in [Threads -> Nat]
      /\ \A u \in Threads : u # t => load'[u] = load[u]
  <2>1. load[t] \in Nat /\ load[t] + size[f] \in Nat
    BY <1>3, <1>5
  <2>2. QED
    BY <1>2, <1>3, <2>1
<1>8. Sorted'
  <2>1. SumOf(size, Batch(t) \cup {f}) = SumOf(size, Batch(t)) + size[f]
    BY <1>3, <1>5, <1>6, SumOfMore
  <2>2. \A u \in Threads : load'[u] = SumOf(size, Batch(u)')
    BY <1>4, <1>6, <1>7, <2>1 DEF Sorted
  <2>3. ASSUME NEW u \in Threads, NEW p \in Batch(u)', NEW g \in pending' PROVE size[g] <= size[p]
    <3>1. g \in pending /\ (p \in Batch(u) \/ p = f)
      BY <1>2, <1>6
    <3>2. QED
      BY <1>1, <1>4, <3>1 DEF Sorted
  <2>4. QED
    BY <1>2, <1>5, <2>2, <2>3 DEF Sorted
<1>9. ASSUME NEW a \in [regular -> Threads], NEW C \in Nat, Within(a, C)
      PROVE  /\ (\A u \in Threads : \A p \in Batch(u)' : C < 3 * size[p])
                  => \A u \in Threads : load'[u] <= C
             /\ \A u \in Threads : 3 * threadNum * load'[u] <= (4 * threadNum - 1) * C
  <2> DEFINE B == [u \in Threads |-> Batch(u)]
  <2>1. \A u \in 1..threadNum : B[u] = Batch(u)
    BY <1>5
  <2>2. Allocated(B, threadNum) \subseteq regular /\ UpTo(B, threadNum, f) \subseteq regular
    BY <1>3, <1>5, <2>1 DEF Allocated, UpTo
  <2>3. \A p \in Allocated(B, threadNum) : \E u \in Threads : p \in Batch(u)
    BY <1>5, <2>1 DEF Allocated
  <2> HIDE DEF B
  <2>4. Distribution(threadNum, size, B, load, f, a, C)
    <3>1. \A u \in Threads : SumOf(size, {p \in UpTo(B, threadNum, f) : a[p] = u}) <= C
      <4> SUFFICES ASSUME NEW u \in Threads
                   PROVE  SumOf(size, {p \in UpTo(B, threadNum, f) : a[p] = u}) <= C
        OBVIOUS
      <4> DEFINE D == {p \in UpTo(B, threadNum, f) : a[p] = u}
                 E == {p \in regular : a[p] = u}
      <4>1. D \subseteq E
        BY <2>2
      <4>2. SumOf(size, E) <= C
        BY <1>9 DEF Within, LoadOf
      <4> HIDE DEF D, E
      <4>3. SumOf(size, D) <= SumOf(size, E) /\ SumOf(size, D) \in Nat /\ SumOf(size, E) \in Nat
        BY <1>3, <4>1, SumOfPart, SumOfTerms
      <4>4. SumOf(size, D) <= C
        BY <4>2, <4>3
      <4>5. QED
        BY <4>4 DEF D
    <3>2. \A u \in 1..threadNum : B[u] \subseteq Paths /\ f \notin B[u] /\ load[u] = SumOf(size, B[u])
      BY <1>3, <1>4, <1>5, <2>1 DEF Sorted
    <3>3. \A u, x \in 1..threadNum : u # x => B[u] \cap B[x] = {}
      BY <1>3, <1>5, <2>1
    <3>4. \A p \in UpTo(B, threadNum, f) : a[p] \in 1..threadNum
      BY <1>5, <2>2
    <3>5. threadNum \in Nat \ {0}
      BY <1>3
    <3>6. QED
      BY <1>3, <1>5, <3>1, <3>2, <3>3, <3>4, <3>5 DEF Distribution
  <2>5. \A u \in Threads : 3 * threadNum * load[u] <= (4 * threadNum - 1) * C
    BY <1>4, <1>9 DEF Bounded
  <2>6. t \in 1..threadNum /\ \A u \in 1..threadNum : load[t] <= load[u]
    BY <1>1, <1>5
  <2> DEFINE x == load[t]
             s == size[f]
  <2>7. x \in Nat /\ s \in Nat /\ load'[t] = x + s /\ threadNum \in Nat \ {0}
    BY <1>3, <1>5, <1>7
  <2>8. CASE 3 * s <= C
    <3>1. threadNum * x + s <= threadNum * C
      BY <2>4, <2>6, Average
    <3> HIDE DEF x, s
    <3>2. 3 * threadNum * (x + s) <= (4 * threadNum - 1) * C
      BY <2>7, <2>8, <3>1, SmallWithinBound
    <3>3. 3 * threadNum * load'[t] <= (4 * threadNum - 1) * C
      BY <2>7, <3>2
    <3>4. \A u \in Threads : 3 * threadNum * load'[u] <= (4 * threadNum - 1) * C
      BY <1>7, <2>5, <3>3
    <3>5. f \in Batch(t)' /\ ~(C < 3 * size[f])
      BY <1>6, <2>7, <2>8 DEF s
    <3>6. QED
      BY <3>4, <3>5
  <2>9. CASE C < 3 * s
    <3>1. \A p \in Allocated(B, threadNum) : size[f] <= size[p]
      BY <1>4, <2>3 DEF Sorted
    <3>2. x + s <= C
      BY <2>4, <2>6, <2>9, <3>1, Fits
    <3>3. \A u \in Threads : \A p \in Batch(u) : C < 3 * size[p]
      <4> SUFFICES ASSUME NEW u \in Threads, NEW p \in Batch(u) PROVE C < 3 * size[p]
        OBVIOUS
      <4>1. size[f] <= size[p] /\ size[p] \in Nat
        BY <1>3, <1>4 DEF Sorted
      <4>2. QED
        BY <1>5, <2>9, <4>1
    <3>4. \A u \in Threads : load[u] <= C
      BY <1>4, <1>9, <3>3 DEF LargeFit
    <3>5. \A u \in Threads : load'[u] <= C /\ load'[u] \in Nat
      BY <1>7, <2>7, <3>2, <3>4
    <3>6. \A u \in Threads : 3 * threadNum * load'[u] <= (4 * threadNum - 1) * C
      BY <2>7, <3>5, RoomWithinBound
    <3>7. QED
      BY <3>5, <3>6
  <2>10. QED
    BY <2>7, <2>8, <2>9
<1>10. \A a, C : Within(a, C)' => Within(a, C)
  BY <1>2, <1>5 DEF Within, LoadOf
<1>11. LargeFit'
  BY <1>2, <1>5, <1>9, <1>10 DEF LargeFit
<1>12. Bounded'
  BY <1>2, <1>5, <1>9, <1>10 DEF Bounded
<1>13. QED
  BY <1>8, <1>11, <1>12

\* The threads start without load, and nothing but an allocation changes a load.
LEMMA LoadStep ==
  ASSUME ThreadsInv, ThreadsInv', CompleteInv, LoadInv, [Next]_vars
  PROVE  LoadInv'
<1>1. CASE Collect
  <2>1. /\ load' = [t \in Threads' |-> 0] /\ UNCHANGED <<regular, size>>
        /\ threadNum' # 1 => batches' = [t \in Threads' |-> <<>>]
    BY <1>1 DEF Collect, Threads, input
  <2> SUFFICES ASSUME threadNum' > 1 PROVE Sorted' /\ LargeFit' /\ Bounded'
    BY DEF LoadInv
  <2>2. threadNum' \in Nat \ {0} /\ threadNum' # 1 /\ size' \in [Paths -> Nat]
    <3>1. threadNum' \in 0..Cardinality(regular') /\ regular' \subseteq Paths
          /\ size' \in [Paths -> Sizes]
      BY DEF ThreadsInv, TypeOK
    <3>2. Cardinality(regular') \in Nat
      BY <3>1, FilesFinite
    <3>3. threadNum' \in Nat \ {0} /\ threadNum' # 1
      BY <3>1, <3>2
    <3>4. QED
      BY <3>1, <3>3, SourcesAssumption
  <2>3. \A t \in Threads' : Batch(t)' = {}
    <3>1. \A t \in Threads' : batches'[t] = <<>>
      BY <2>1, <2>2
    <3>2. QED
      BY <3>1 DEF Batch
  <2>4. \A t \in Threads' : load'[t] = 0
    BY <2>1
  <2> HIDE <2>1
  <2>5. Sorted'
    <3>1. SumOf(size', {}) = 0
      BY <2>2, SumOfNothing
    <3>2. QED
      BY <2>3, <2>4, <3>1 DEF Sorted
  <2>6. LargeFit'
    BY <2>4 DEF LargeFit
  <2>7. \A C \in Nat : 3 * threadNum' * 0 <= (4 * threadNum' - 1) * C
    <3> DEFINE n == threadNum'
    <3>1. n \in Nat \ {0}
      BY <2>2
    <3> HIDE DEF n
    <3>2. \A C \in Nat : 3 * n * 0 <= (4 * n - 1) * C
      BY <3>1, RoomWithinBound
    <3>3. QED
      BY <3>2 DEF n
  <2>8. Bounded'
    BY <2>4, <2>7 DEF Bounded
  <2>9. QED
    BY <2>5, <2>6, <2>8
<1>2. CASE Allocate
  <2>1. main = "allocate" /\ threadNum' = threadNum
    BY <1>2 DEF Allocate, Assign
  <2>2. QED
    BY <1>2, <2>1, AllocateBounded DEF LoadInv
<1>3. CASE UNCHANGED vars
  <2>1. UNCHANGED <<regular, size, main, threadNum, pending, load, batches>> /\ Threads' = Threads
    BY <1>3 DEF vars, input, allocation, Threads
  <2>2. /\ \A t : Batch(t)' = Batch(t)
        /\ \A a, C : Within(a, C)' = Within(a, C)
    BY <2>1 DEF Batch, Within, LoadOf
  <2>3. (Sorted => Sorted') /\ (LargeFit => LargeFit') /\ (Bounded => Bounded')
    BY <2>1, <2>2 DEF Sorted, LargeFit, Bounded
  <2>4. QED
    BY <2>1, <2>3 DEF LoadInv
<1>4. CASE \/ AllocateToNone \/ StartThreads \/ Join
           \/ \E t \in Threads : Thread(t)
  <2>1. UNCHANGED <<regular, size, threadNum, load>> /\ main' # "allocate"
    BY <1>4 DEF AllocateToNone, StartThreads, Join, Thread, Create, CannotOpen,
                EndSourceFileAction, Idle, Busy, input, allocation
  <2>2. Threads' = Threads
    BY <2>1 DEF Threads
  <2>3. \A a, C : Within(a, C)' = Within(a, C)
    BY <2>1, <2>2 DEF Within, LoadOf
  <2>4. Bounded => Bounded'
    BY <2>1, <2>2, <2>3 DEF Bounded
  <2>5. QED
    BY <2>1, <2>4 DEF LoadInv
<1>5. QED
  BY <1>1, <1>2, <1>3, <1>4 DEF Next

\* A load that is greatest exists.
LEMMA GreatestLoad ==
  ASSUME threadNum \in Nat \ {0}, NEW l, \A t \in Threads : l[t] \in Nat
  PROVE  /\ MaxLoad(l) \in Nat /\ \E t \in Threads : MaxLoad(l) = l[t]
         /\ \A t \in Threads : l[t] <= MaxLoad(l)
<1> DEFINE n == threadNum
           K == {k \in 0..n : k = 0 \/ \E t \in 1..k : \A u \in 1..k : l[u] <= l[t]}
           S == {l[t] : t \in Threads}
<1>1. 0 \in K
  OBVIOUS
<1>2. ASSUME NEW k \in 0..n, k \in K, k < n PROVE k + 1 \in K
  <2>1. /\ k + 1 \in 0..n /\ 1..(k + 1) = 1..k \cup {k + 1} /\ k + 1 \in 1..(k + 1)
        /\ \A u \in 1..(k + 1) : l[u] \in Nat
    BY <1>2 DEF Threads
  <2>2. CASE k = 0
    <3>1. \A u \in 1..(k + 1) : l[u] <= l[k + 1]
      BY <2>1, <2>2
    <3>2. QED
      BY <2>1, <3>1
  <2>3. CASE k # 0
    <3>1. PICK t \in 1..k : \A u \in 1..k : l[u] <= l[t]
      BY <1>2, <2>3
    <3>2. l[t] \in Nat /\ l[k + 1] \in Nat /\ t \in 1..(k + 1)
      BY <2>1
    <3>3. CASE l[k + 1] <= l[t]
      <4>1. \A u \in 1..(k + 1) : l[u] <= l[t]
        BY <2>1, <3>1, <3>3
      <4>2. QED
        BY <2>1, <3>2, <4>1
    <3>4. CASE l[t] <= l[k + 1]
      <4>1. \A u \in 1..(k + 1) : l[u] <= l[k + 1]
        BY <2>1, <3>1, <3>2, <3>4
      <4>2. QED
        BY <2>1, <4>1
    <3>5. QED
      BY <3>2, <3>3, <3>4
  <2>4. QED
    BY <2>2, <2>3
<1>3. n \in K
  <2>1. n \in 0..n /\ n \in Nat
    OBVIOUS
  <2> HIDE DEF K
  <2>2. QED
    BY <1>1, <1>2, <2>1, UpToInduction
<1>4. PICK t \in Threads : \A u \in Threads : l[u] <= l[t]
  BY <1>3 DEF Threads
<1>5. l[t] \in S /\ \A y \in S : l[t] >= y
  <2>1. \A u \in Threads : l[t] >= l[u]
    BY <1>4
  <2>2. QED
    BY <2>1
<1>6. MaxLoad(l) \in S /\ \A y \in S : MaxLoad(l) >= y
  BY <1>5 DEF MaxLoad, Max
<1> HIDE <1>4, <1>5
<1>7. \A u \in Threads : MaxLoad(l) >= l[u]
  BY <1>6
<1>8. PICK u \in Threads : MaxLoad(l) = l[u]
  BY <1>6
<1>9. MaxLoad(l) \in Nat
  BY <1>8
<1>10. QED
  BY <1>7, <1>8, <1>9

\* The best distribution exists, and is one of those that LoadInv speaks of.
LEMMA OptimumIsReached ==
  ASSUME ThreadsInv, threadNum > 1
  PROVE  OptimalLoad \in Nat /\ \E a \in [regular -> Threads] : Within(a, OptimalLoad)
<1> DEFINE Of(a) == [t \in Threads |-> LoadOf(a, t)]
           S == {MaxLoad(Of(a)) : a \in [regular -> Threads]}
<1>1. threadNum \in Nat \ {0} /\ size \in [Paths -> Nat]
  <2>1. threadNum \in 0..Cardinality(regular) /\ regular \subseteq Paths /\ size \in [Paths -> Sizes]
    BY DEF ThreadsInv, TypeOK
  <2>2. Cardinality(regular) \in Nat
    BY <2>1, FilesFinite
  <2>3. threadNum \in Nat \ {0}
    BY <2>1, <2>2
  <2>4. QED
    BY <2>1, <2>3, SourcesAssumption
<1>2. ASSUME NEW a
      PROVE  MaxLoad(Of(a)) \in Nat /\ \A t \in Threads : LoadOf(a, t) <= MaxLoad(Of(a))
  <2>1. \A t \in Threads : Of(a)[t] = LoadOf(a, t) /\ Of(a)[t] \in Nat
    BY <1>1, SumOfTerms DEF LoadOf
  <2> HIDE DEF Of
  <2>2. MaxLoad(Of(a)) \in Nat /\ \A t \in Threads : Of(a)[t] <= MaxLoad(Of(a))
    BY <1>1, <2>1, GreatestLoad
  <2>3. QED
    BY <2>1, <2>2
<1>3. S \in SUBSET Nat /\ S # {}
  <2>1. [r \in regular |-> 1] \in [regular -> Threads]
    BY <1>1 DEF Threads
  <2> HIDE DEF Of
  <2>2. QED
    BY <1>2, <2>1
<1>4. OptimalLoad = Min(S)
  BY DEF OptimalLoad
<1>5. OptimalLoad \in S
  <2> HIDE DEF S
  <2>1. QED
    BY <1>3, <1>4, LeastNumber
<1> HIDE DEF Of
<1>6. PICK a \in [regular -> Threads] : OptimalLoad = MaxLoad(Of(a))
  BY <1>5
<1>7. QED
  BY <1>2, <1>6 DEF Within

\* allocateGreedyMinHeap never gives a thread more than 4/3 - 1/(3n) times what the best
\* distribution gives its fullest thread, for any number n of threads, any files
\* and any sizes.
THEOREM GreedyIsGood == Spec => []LoadsWithinGreedyBound
<1>1. Init => LoadInv
  BY DEF Init, LoadInv
<1>2. (ThreadsInv /\ CompleteInv) /\ ThreadsInv' /\ LoadInv /\ [Next]_vars => LoadInv'
  BY LoadStep
<1>3. ThreadsInv /\ LoadInv => LoadsWithinGreedyBound
  <2> SUFFICES ASSUME ThreadsInv, LoadInv, threadNum > 1
               PROVE  3 * threadNum * MaxLoad(load) <= (4 * threadNum - 1) * OptimalLoad
    BY DEF LoadsWithinGreedyBound
  <2>1. PICK a \in [regular -> Threads] : Within(a, OptimalLoad)
    BY OptimumIsReached
  <2>2. threadNum \in Nat \ {0} /\ \A t \in Threads : load[t] \in Nat
    <3>1. threadNum \in 0..Cardinality(regular) /\ regular \subseteq Paths /\ load \in [Threads -> Nat]
      BY DEF ThreadsInv, TypeOK
    <3>2. QED
      BY <3>1, FilesFinite
  <2>3. PICK t \in Threads : MaxLoad(load) = load[t]
    BY <2>2, GreatestLoad
  <2>4. 3 * threadNum * load[t] <= (4 * threadNum - 1) * OptimalLoad
    BY <2>1, OptimumIsReached DEF LoadInv, Bounded
  <2>5. QED
    BY <2>3, <2>4
<1>4. QED
  BY <1>1, <1>2, <1>3, ExporterInductive, PTL DEF Spec
=============================================================================
