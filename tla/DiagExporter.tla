----------------------------- MODULE DiagExporter -----------------------------
(***************************************************************************)
(* diag-exporter's main: the source paths are filtered, one result slot    *)
(* per file that remains is filled with a placeholder, and clang is run on *)
(* the files, by the main thread or by threads that each have a batch.     *)
(* Every file clang is run on takes the next number of an atomic counter   *)
(* and, if it could be opened, puts its result into the slot of that       *)
(* number.                                                                 *)
(*                                                                         *)
(* What ClangTool::run does with a path is external: it makes an action    *)
(* for each path in turn, also for one that then cannot be opened.         *)
(***************************************************************************)
EXTENDS Integers, Sequences, FiniteSets, SequencesExt

CONSTANTS
  N,              \* number of source paths
  Sizes,          \* sizes of files, which add up to a number that fits in an unsigned
  ThreadOptions,  \* values of the option -t
  Hardware,       \* hardware_concurrency()
  None

ASSUME SourcesAssumption ==
  /\ N \in Nat
  /\ Sizes \subseteq Nat
  /\ ThreadOptions \subseteq Nat
  /\ Hardware \in Nat
  /\ None \notin 1..N

Paths == 1..N

VARIABLES
  regular,   \* the paths of regular files
  size,
  option,    \* -t
  main,      \* the next step of the main thread
  threadNum,
  pending,   \* sourceFiles that allocateGreedyMinHeap has not allocated
  batches,   \* thread -> the paths it still has to run clang on
  load,      \* thread -> threadLoad
  counter,   \* fileIdCounter
  fileId,    \* thread -> the number of the action it runs, or -1
  opened,    \* the paths that clang could open
  results    \* individualDiagsInfos, from slot 0 on; None is the placeholder

input == <<regular, size, option>>
allocation == <<threadNum, pending, load>>
vars == <<input, main, allocation, batches, counter, fileId, opened, results>>

Init ==
  /\ regular \in SUBSET Paths
  /\ size \in [Paths -> Sizes]
  /\ option \in ThreadOptions
  /\ main = "collect"
  /\ threadNum = 0 /\ pending = {} /\ batches = <<>> /\ load = <<>>
  /\ counter = 0 /\ fileId = <<>>
  /\ opened = {} /\ results = <<>>

Threads == 1..threadNum
Slots(n) == 0..(n - 1)

-----------------------------------------------------------------------------
\* Mutant: more threads than files.
ValidateThreadNumUncapped(files) == Min({option, Hardware})

ValidateThreadNum(files) == Min({option, Hardware, Cardinality(files)})

\* main up to the choice of the mode.  One thread is given the list of paths as it
\* was on the command line.
Collect ==
  /\ main = "collect"
  /\ results' = [s \in Slots(Cardinality(regular)) |-> None]
  /\ threadNum' = ValidateThreadNum(regular)
  /\ load' = [t \in 1..threadNum' |-> 0]
  /\ fileId' = [t \in 1..threadNum' |-> -1]
  /\ \/ /\ threadNum' = 1
        /\ main' = "run"
        /\ batches' = <<[p \in Paths |-> p]>>
        /\ UNCHANGED pending
     \/ /\ threadNum' # 1
        /\ main' = "allocate"
        /\ batches' = [t \in 1..threadNum' |-> <<>>]
        /\ pending' = regular
  /\ UNCHANGED <<input, counter, opened>>

Assign(f, t) ==
  /\ pending' = pending \ {f}
  /\ batches' = [batches EXCEPT ![t] = Append(@, f)]
  /\ load' = [load EXCEPT ![t] = @ + size[f]]
  /\ UNCHANGED <<input, main, threadNum, counter, fileId, opened, results>>

\* Mutant: the files are not sorted by size.
AllocateUnsorted ==
  /\ main = "allocate"
  /\ \E f \in pending, t \in Threads : (\A u \in Threads : load[t] <= load[u]) /\ Assign(f, t)

\* allocateGreedyMinHeap: the largest file that is left goes to a thread whose
\* load is least.
Allocate ==
  /\ main = "allocate"
  /\ \E f \in pending, t \in Threads :
       /\ \A g \in pending : size[g] <= size[f]
       /\ \A u \in Threads : load[t] <= load[u]
       /\ Assign(f, t)

\* Without threads the heap is empty, and its top is read.
AllocateToNone ==
  /\ main = "allocate" /\ pending # {} /\ threadNum = 0
  /\ main' = "crashed"
  /\ UNCHANGED <<input, allocation, batches, counter, fileId, opened, results>>

StartThreads ==
  /\ main = "allocate" /\ pending = {}
  /\ main' = "run"
  /\ UNCHANGED <<input, allocation, batches, counter, fileId, opened, results>>

-----------------------------------------------------------------------------
Idle(t) == main = "run" /\ fileId[t] = -1 /\ batches[t] # <<>>
Busy(t) == main = "run" /\ fileId[t] # -1

\* Mutant: the number is the counter after the increment.
CreatePreIncrement(t) ==
  /\ Idle(t)
  /\ counter' = counter + 1
  /\ fileId' = [fileId EXCEPT ![t] = counter + 1]
  /\ UNCHANGED <<input, main, allocation, batches, opened, results>>

\* Mutant: the number is read and the increment is lost.
CreateWithoutIncrement(t) ==
  /\ Idle(t)
  /\ fileId' = [fileId EXCEPT ![t] = counter]
  /\ UNCHANGED <<input, main, allocation, batches, counter, opened, results>>

\* DiagnosticExporterActionFactory::create.
Create(t) ==
  /\ Idle(t)
  /\ counter' = counter + 1
  /\ fileId' = [fileId EXCEPT ![t] = counter]
  /\ UNCHANGED <<input, main, allocation, batches, opened, results>>

NextFile(t) ==
  /\ fileId' = [fileId EXCEPT ![t] = -1]
  /\ batches' = [batches EXCEPT ![t] = Tail(@)]

\* The file cannot be opened: the action ends without a result.  This is certain
\* for a path of no regular file, and may happen to any other.
CannotOpen(t) ==
  /\ Busy(t)
  /\ NextFile(t)
  /\ UNCHANGED <<input, main, allocation, counter, opened, results>>

\* ExecuteAction and EndSourceFileAction.  Beyond the last slot the behaviour is
\* undefined: the program stops, or the result is lost.
EndSourceFileAction(t) ==
  /\ Busy(t)
  /\ Head(batches[t]) \in regular
  /\ opened' = opened \cup {Head(batches[t])}
  /\ NextFile(t)
  /\ \/ /\ fileId[t] \in DOMAIN results
        /\ results' = [results EXCEPT ![fileId[t]] = Head(batches[t])]
        /\ UNCHANGED main
     \/ /\ fileId[t] \notin DOMAIN results
        /\ main' \in {main, "crashed"}
        /\ UNCHANGED results
  /\ UNCHANGED <<input, allocation, counter>>

Thread(t) == Create(t) \/ CannotOpen(t) \/ EndSourceFileAction(t)

\* Mutant: the main thread waits for a number of files instead of the threads.
JoinAwaitingAllPaths ==
  /\ main = "run" /\ counter = N
  /\ \A t \in Threads : batches[t] = <<>>
  /\ main' \in {"done", "failed"}
  /\ UNCHANGED <<input, allocation, batches, counter, fileId, opened, results>>

\* All threads are joined; the results are written, or the process exits with 1.
Join ==
  /\ main = "run"
  /\ \A t \in Threads : batches[t] = <<>>
  /\ main' \in {"done", "failed"}
  /\ UNCHANGED <<input, allocation, batches, counter, fileId, opened, results>>

Next == \/ Collect \/ Allocate \/ AllocateToNone \/ StartThreads \/ Join
        \/ \E t \in Threads : Thread(t)

Spec == Init /\ [][Next]_vars

\* The threads are scheduled, and clang comes to an end with every file.
FairSpec == Spec /\ WF_vars(Next)

-----------------------------------------------------------------------------
TypeOK ==
  /\ regular \subseteq Paths
  /\ size \in [Paths -> Sizes]
  /\ option \in ThreadOptions
  /\ main \in {"collect", "allocate", "run", "done", "failed", "crashed"}
  /\ threadNum \in 0..Cardinality(regular)
  /\ pending \subseteq regular
  /\ batches \in [Threads -> Seq(Paths)]
  /\ load \in [Threads -> Nat]
  /\ counter \in Nat
  /\ fileId \in [Threads -> Nat \cup {-1}]
  /\ opened \subseteq regular
  /\ results \in [DOMAIN results -> regular \cup {None}]

\* The output has a result for every file that clang could open, and no other:
\* whatever the threads' order, no file is lost, which would make it look free of
\* errors.  The single-threaded mode is excepted if a source was skipped.
ResultsComplete ==
  (main = "done" /\ (regular = Paths \/ threadNum # 1))
    => {results[s] : s \in DOMAIN results} \ {None} = opened

\* The slot of a file that is done is never filled again by another thread.
SlotWrittenOnce ==
  [][\A s \in DOMAIN results : results[s] # None => results'[s] = results[s]]_vars

\* The sum of v over the numbers up to n, and over the paths in A.
SumTo(v, n) ==
  LET upTo[k \in 0..n] == IF k = 0 THEN 0 ELSE upTo[k - 1] + v[k] IN upTo[n]

SumOf(v, A) == SumTo([p \in Paths |-> IF p \in A THEN v[p] ELSE 0], N)

LoadOf(assignment, t) == SumOf(size, {f \in regular : assignment[f] = t})

MaxLoad(loads) == Max({loads[t] : t \in Threads})

\* The least maximal load of all ways to distribute the files.
OptimalLoad ==
  Min({MaxLoad([t \in Threads |-> LoadOf(a, t)]) : a \in [regular -> Threads]})

\* "Minimize max (Thread Loads)": the greedy allocation is within a factor of
\* 4/3 - 1/(3n) of the optimum for n threads, however files of one size and
\* threads of one load are ordered.
LoadsWithinGreedyBound ==
  (main = "run" /\ threadNum > 1 /\ counter = 0)
    => 3 * threadNum * MaxLoad(load) <= (4 * threadNum - 1) * OptimalLoad

\* The process ends, and never waits for a thread that has nothing left to do.
Ends == <>(main \in {"done", "failed", "crashed"})

\* "Skipping non-regular file": the path is not processed, so that a file that is
\* processed has the number of a slot, and EndSourceFileAction writes its result
\* into the vector.  The number of a skipped path itself is never written to.
SlotInRange ==
  \A t \in DOMAIN fileId :
    (fileId[t] # -1 /\ Head(batches[t]) \in regular) => fileId[t] \in DOMAIN results
=============================================================================
