-------------------------- MODULE EnginePool_proofs --------------------------
(***************************************************************************)
(* Proofs about EnginePool, for any number of files and threads.           *)
(***************************************************************************)
EXTENDS EnginePool, FiniteSetTheorems, WellFoundedInduction, TLAPS

Steps == {"queued", "createDir", "mend", "countSuccess", "countException",
          "save", "publish", "ended", "lost"}

Shapes ==
  /\ task \in [Files -> Steps]
  /\ outcome \in [Files -> {"none", "success", "unsuccessful", "fatal", "noDir"}]
  /\ saved \subseteq Files /\ dirs \subseteq Files /\ bundle \subseteq Files

\* A directory is published by a task that is over and has saved its report, and
\* main takes only published ones; until then the directory is on disk.
PublishInv ==
  /\ \A f \in dirs : task[f] = "ended" /\ f \in saved
  /\ bundle \subseteq dirs
  /\ \A f \in Files : task[f] = "publish" => f \in saved
  /\ \A f \in Files : task[f] \in {"queued", "createDir", "mend"} => outcome[f] = "none"
  /\ RunningTaskKeepsDir

\* What a step of one file's task may do to the state that PublishInv is about.
LEMMA GotoFacts ==
  ASSUME Shapes, NEW f \in Files, NEW s \in Steps, Goto(f, s)
  PROVE  /\ task' \in [Files -> Steps]
         /\ task'[f] = s
         /\ \A g \in Files : g # f => task'[g] = task[g]
  BY DEF Shapes, Goto

\* Steps of a task keep the types and what is known of published directories.
LEMMA TaskPublishes ==
  ASSUME Shapes, PublishInv, NEW f \in Files, Task(f)
  PROVE  Shapes' /\ PublishInv'
<1>1. CASE Start(f)
  <2>1. task' \in [Files -> Steps] /\ task'[f] = "createDir" /\ task[f] = "queued"
        /\ \A g \in Files : g # f => task'[g] = task[g]
    BY <1>1, GotoFacts DEF Start, Steps
  <2>2. UNCHANGED <<outcome, saved, dirs, bundle, onDisk>>
    BY <1>1 DEF Start, results, reported
  <2>3. QED
    BY <2>1, <2>2 DEF Shapes, PublishInv, RunningTaskKeepsDir
<1>2. CASE CreateMendingDir(f)
  <2>1. \E s \in {"mend", "ended", "countSuccess"} :
          /\ Goto(f, s)
          /\ \/ f \in onDisk' /\ outcome' = outcome
             \/ s # "mend" /\ outcome' = [outcome EXCEPT ![f] = "noDir"]
    BY <1>2 DEF CreateMendingDir
  <2>2. PICK s \in {"mend", "ended", "countSuccess"} :
          /\ Goto(f, s)
          /\ \/ f \in onDisk' /\ outcome' = outcome
             \/ s # "mend" /\ outcome' = [outcome EXCEPT ![f] = "noDir"]
    BY <2>1
  <2>3. task' \in [Files -> Steps] /\ task'[f] = s /\ s \in Steps
        /\ \A g \in Files : g # f => task'[g] = task[g]
    BY <2>2, GotoFacts DEF Steps
  <2>4. task[f] = "createDir" /\ UNCHANGED <<saved, dirs, bundle>> /\ onDisk \subseteq onDisk'
    BY <1>2 DEF CreateMendingDir, reported
  <2>5. f \notin dirs
    BY <2>4 DEF PublishInv
  <2>6. /\ outcome' \in [Files -> {"none", "success", "unsuccessful", "fatal", "noDir"}]
        /\ \A g \in Files : g # f => outcome'[g] = outcome[g]
        /\ outcome'[f] = "noDir" \/ f \in onDisk'
        /\ s = "mend" => outcome'[f] = outcome[f]
    BY <2>2 DEF Shapes
  <2>7. QED
    BY <2>2, <2>3, <2>4, <2>5, <2>6 DEF Shapes, PublishInv, RunningTaskKeepsDir
<1>3. CASE ReadFrequency(f) \/ PutFrequency(f)
  <2>1. UNCHANGED <<task, outcome, saved, dirs, bundle, onDisk>>
    BY <1>3 DEF ReadFrequency, PutFrequency, results, reported
  <2>2. QED
    BY <2>1 DEF Shapes, PublishInv, RunningTaskKeepsDir
<1>4. CASE EndMend(f)
  <2>1. \E s \in {"countSuccess", "lost"} : Goto(f, s)
    BY <1>4 DEF EndMend, Escapes
  <2>2. PICK s \in {"countSuccess", "lost"} : Goto(f, s)
    BY <2>1
  <2>3. task' \in [Files -> Steps] /\ task'[f] = s
        /\ \A g \in Files : g # f => task'[g] = task[g]
    BY <2>2, GotoFacts DEF Steps
  <2>4. task[f] = "mend" /\ UNCHANGED <<saved, dirs, bundle, onDisk>>
    BY <1>4 DEF EndMend, results, reported
  <2>5. outcome' = outcome \/ \E o \in {"success", "unsuccessful", "fatal"} :
                                outcome' = [outcome EXCEPT ![f] = o]
    BY <1>4 DEF EndMend
  <2>6. /\ outcome' \in [Files -> {"none", "success", "unsuccessful", "fatal", "noDir"}]
        /\ \A g \in Files : g # f => outcome'[g] = outcome[g]
    BY <2>5 DEF Shapes
  <2>7. f \in onDisk
    BY <2>4 DEF PublishInv, RunningTaskKeepsDir
  <2>8. QED
    BY <2>2, <2>3, <2>4, <2>6, <2>7 DEF Shapes, PublishInv, RunningTaskKeepsDir
<1>5. CASE CountSuccess(f) \/ CountException(f)
  <2>1. \E s \in {"countException", "save"} : Goto(f, s)
    BY <1>5 DEF CountSuccess, CountException
  <2>2. PICK s \in {"countException", "save"} : Goto(f, s)
    BY <2>1
  <2>3. task' \in [Files -> Steps] /\ task'[f] = s
        /\ \A g \in Files : g # f => task'[g] = task[g]
    BY <2>2, GotoFacts DEF Steps
  <2>4. /\ task[f] \in {"countSuccess", "countException"}
        /\ UNCHANGED <<outcome, saved, dirs, bundle, onDisk>>
    BY <1>5 DEF CountSuccess, CountException, results, reported
  <2>5. QED
    BY <2>2, <2>3, <2>4 DEF Shapes, PublishInv, RunningTaskKeepsDir
<1>6. CASE Save(f)
  <2>1. \E s \in {"publish", "lost"} :
          Goto(f, s) /\ (s = "publish" => saved' = saved \cup {f})
    BY <1>6 DEF Save, Escapes, SourceResultsAllocated
  <2>2. PICK s \in {"publish", "lost"} :
          Goto(f, s) /\ (s = "publish" => saved' = saved \cup {f})
    BY <2>1
  <2>3. task' \in [Files -> Steps] /\ task'[f] = s
        /\ \A g \in Files : g # f => task'[g] = task[g]
    BY <2>2, GotoFacts DEF Steps
  <2>4. /\ task[f] = "save" /\ UNCHANGED <<outcome, dirs, bundle, onDisk>>
        /\ saved' = saved \/ saved' = saved \cup {f}
    BY <1>6 DEF Save, reported
  <2>5. QED
    BY <2>2, <2>3, <2>4 DEF Shapes, PublishInv, RunningTaskKeepsDir
<1>7. CASE Publish(f)
  <2>1. task' \in [Files -> Steps] /\ task'[f] = "ended" /\ task[f] = "publish"
        /\ \A g \in Files : g # f => task'[g] = task[g]
    BY <1>7, GotoFacts DEF Publish, Steps
  <2>2. dirs' = dirs \cup {f} /\ UNCHANGED <<outcome, saved, bundle, onDisk>>
    BY <1>7 DEF Publish, reported
  <2>3. QED
    BY <2>1, <2>2 DEF Shapes, PublishInv, RunningTaskKeepsDir
<1>8. QED
  BY <1>1, <1>2, <1>3, <1>4, <1>5, <1>6, <1>7 DEF Task

\* Steps of the main thread do: it takes the published directories, and deletes
\* only those it has taken.
LEMMA MainPublishes ==
  ASSUME Shapes, PublishInv, Main
  PROVE  Shapes' /\ PublishInv'
<1>1. CASE AllEnded \/ ReadMendingDirData \/ ListSourceResults \/ ReadSuccess
           \/ ReadExceptions \/ Export
  <2>1. UNCHANGED <<task, outcome, saved, dirs, bundle, onDisk>>
    BY <1>1 DEF AllEnded, ReadMendingDirData, ListSourceResults, ReadSuccess,
                ReadExceptions, Export, results, reported
  <2>2. QED
    BY <2>1 DEF Shapes, PublishInv, RunningTaskKeepsDir
<1>2. CASE AwaitTimeout
  <2>1. /\ task' = [f \in Files |-> IF task[f] = "queued" THEN "lost" ELSE task[f]]
        /\ UNCHANGED <<outcome, saved, dirs, bundle, onDisk>>
    BY <1>2 DEF AwaitTimeout, results, reported
  <2>2. /\ task' \in [Files -> Steps]
        /\ \A f \in Files : task'[f] = task[f] \/ (task[f] = "queued" /\ task'[f] = "lost")
    BY <2>1 DEF Shapes, Steps
  <2>3. QED
    BY <2>1, <2>2 DEF Shapes, PublishInv, RunningTaskKeepsDir
<1>3. CASE MakeBundle
  <2>1. bundle' = dirs /\ UNCHANGED <<task, outcome, saved, dirs, onDisk>>
    BY <1>3 DEF MakeBundle, results
  <2>2. QED
    BY <2>1 DEF Shapes, PublishInv, RunningTaskKeepsDir
<1>4. CASE Delete
  <2>1. UNCHANGED <<task, outcome, saved, dirs, bundle>>
    BY <1>4 DEF Delete, reported
  <2>2. onDisk' = onDisk \/ (at \in bundle /\ onDisk' = onDisk \ {at})
    BY <1>4 DEF Delete
  <2>3. at \in bundle => task[at] = "ended"
    BY DEF PublishInv
  <2>4. QED
    BY <2>1, <2>2, <2>3 DEF Shapes, PublishInv, RunningTaskKeepsDir
<1>5. QED
  BY <1>1, <1>2, <1>3, <1>4 DEF Main

LEMMA PublishInvariant == Spec => [](Shapes /\ PublishInv)
<1>1. Init => Shapes /\ PublishInv
  BY DEF Init, Shapes, PublishInv, Steps, RunningTaskKeepsDir
<1>2. Shapes /\ PublishInv /\ [Next]_vars => Shapes' /\ PublishInv'
  <2> SUFFICES ASSUME Shapes, PublishInv, [Next]_vars
               PROVE  Shapes' /\ PublishInv'
    OBVIOUS
  <2>1. CASE Main
    BY <2>1, MainPublishes
  <2>2. CASE \E f \in Files : Task(f)
    BY <2>2, TaskPublishes
  <2>3. CASE UNCHANGED vars
    <3>1. UNCHANGED <<task, outcome, saved, dirs, bundle, onDisk>>
      BY <2>3 DEF vars, results, reported
    <3>2. QED
      BY <3>1 DEF Shapes, PublishInv, RunningTaskKeepsDir
  <2>4. QED
    BY <2>1, <2>2, <2>3 DEF Next
<1>3. QED
  BY <1>1, <1>2, PTL DEF Spec

\* However many files and threads there are, and although main may have stopped
\* waiting, Launcher deletes no mending directory that a task still works in.
THEOREM DirKept == Spec => []RunningTaskKeepsDir
<1>1. PublishInv => RunningTaskKeepsDir
  BY DEF PublishInv
<1>2. QED
  BY <1>1, PublishInvariant, PTL

\* Every mending directory that ResultsExporter is handed holds its source report.
THEOREM ReportsFound == Spec => []ExportFindsReports
<1>1. PublishInv => ExportFindsReports
  BY DEF PublishInv, ExportFindsReports
<1>2. QED
  BY <1>1, PublishInvariant, PTL

-----------------------------------------------------------------------------
\* The files whose task has passed the counting of successes, or of exceptions,
\* with an outcome that is counted there.
Succeeded == {f \in Files : outcome[f] = "success" /\ task[f] # "countSuccess"}
Excepted == {f \in Files : /\ outcome[f] \in {"fatal", "noDir"}
                           /\ task[f] \notin {"countSuccess", "countException"}}

\* The counters count those files (a file without a directory is in no counter
\* when there is no pool), and the report holds values they had.
CountInv ==
  /\ success \in Nat /\ exceptions \in Nat
  /\ report \in [success : Nat, exceptions : Nat]
  /\ success = Cardinality(Succeeded)
  /\ exceptions <= Cardinality(Excepted)
  /\ report.success <= success /\ report.exceptions <= exceptions

LEMMA CountedFinite ==
  /\ IsFiniteSet(Files) /\ Cardinality(Files) = N
  /\ IsFiniteSet(Succeeded) /\ Cardinality(Succeeded) \in Nat
  /\ IsFiniteSet(Excepted) /\ Cardinality(Excepted) \in Nat
  /\ Cardinality(Succeeded) + Cardinality(Excepted) <= N
<1>1. IsFiniteSet(Files) /\ Cardinality(Files) = N
  BY FS_Interval, PoolAssumption DEF Files
<1>2. IsFiniteSet(Succeeded) /\ IsFiniteSet(Excepted) /\ IsFiniteSet(Succeeded \cup Excepted)
      /\ Cardinality(Succeeded \cup Excepted) <= N
  <2>1. Succeeded \subseteq Files /\ Excepted \subseteq Files
        /\ Succeeded \cup Excepted \subseteq Files
    BY DEF Succeeded, Excepted
  <2>2. QED
    BY <1>1, <2>1, FS_Subset
<1>3. Cardinality(Succeeded) \in Nat /\ Cardinality(Excepted) \in Nat
  BY <1>2, FS_CardinalityType
<1>4. Succeeded \cap Excepted = {}
  BY DEF Succeeded, Excepted
<1>5. Cardinality(Succeeded \cup Excepted) = Cardinality(Succeeded) + Cardinality(Excepted)
  <2>1. Cardinality(Succeeded \cup Excepted)
          = Cardinality(Succeeded) + Cardinality(Excepted) - Cardinality(Succeeded \cap Excepted)
    BY <1>2, FS_Union
  <2>2. Cardinality(Succeeded \cap Excepted) = 0
    BY <1>4, FS_EmptySet, Zenon
  <2>3. QED
    BY <2>1, <2>2, <1>3
<1>6. QED
  BY <1>1, <1>2, <1>3, <1>5

\* A step that counts nothing keeps the invariant if it takes no file out of
\* Excepted and leaves Succeeded as it is.
LEMMA CountsStay ==
  ASSUME CountInv, Succeeded' = Succeeded, Excepted \subseteq Excepted',
         IsFiniteSet(Excepted'), UNCHANGED <<success, exceptions, report>>
  PROVE  CountInv'
<1>1. Cardinality(Excepted) <= Cardinality(Excepted')
  BY FS_Subset
<1>2. Cardinality(Excepted) \in Nat /\ Cardinality(Excepted') \in Nat
  BY CountedFinite, FS_CardinalityType
<1>3. QED
  BY <1>1, <1>2 DEF CountInv

LEMMA ExceptedFiniteNext == IsFiniteSet(Excepted')
<1>1. IsFiniteSet(Files) /\ Excepted' \subseteq Files
  BY CountedFinite DEF Excepted, Files
<1>2. QED
  BY <1>1, FS_Subset

LEMMA TaskCounts ==
  ASSUME Shapes, PublishInv, CountInv, NEW f \in Files, Task(f)
  PROVE  CountInv'
<1> USE ExceptedFiniteNext
<1>1. CASE Start(f) \/ ReadFrequency(f) \/ PutFrequency(f) \/ Publish(f) \/ Save(f)
  <2>1. UNCHANGED <<outcome, success, exceptions, report>>
    BY <1>1 DEF Start, ReadFrequency, PutFrequency, Publish, Save, counts, reported
  <2>2. \/ task' = task
        \/ \E s \in {"createDir", "ended", "publish", "lost"} :
             task' = [task EXCEPT ![f] = s] /\ task[f] \in {"queued", "publish", "save"}
    BY <1>1 DEF Start, ReadFrequency, PutFrequency, Publish, Save, Escapes, Goto
  <2>3. \A g \in Files : task'[g] = task[g] \/
           (/\ task[g] \notin {"countSuccess", "countException"}
            /\ task'[g] \notin {"countSuccess", "countException"})
    BY <2>2 DEF Shapes
  <2>4. Succeeded' = Succeeded /\ Excepted' = Excepted
    BY <2>1, <2>3 DEF Succeeded, Excepted
  <2>5. QED
    BY <2>1, <2>4, CountsStay
<1>2. CASE CreateMendingDir(f) \/ EndMend(f)
  <2>1. UNCHANGED <<success, exceptions, report>>
    BY <1>2 DEF CreateMendingDir, EndMend, counts, reported
  <2>2. task[f] \in {"createDir", "mend"} /\ outcome[f] = "none"
    BY <1>2 DEF CreateMendingDir, EndMend, PublishInv
  <2>3. \E s \in Steps, o \in {"none", "success", "unsuccessful", "fatal", "noDir"} :
          /\ task' = [task EXCEPT ![f] = s]
          /\ outcome' = [outcome EXCEPT ![f] = o]
          /\ o = "success" => s = "countSuccess"
    <3>1. outcome = [outcome EXCEPT ![f] = "none"]
      BY <2>2 DEF Shapes
    <3>2. QED
      BY <3>1, <1>2 DEF CreateMendingDir, EndMend, Escapes, Goto, Steps
  <2>4. /\ \A g \in Files : g # f => task'[g] = task[g] /\ outcome'[g] = outcome[g]
        /\ outcome'[f] = "success" => task'[f] = "countSuccess"
    BY <2>3 DEF Shapes
  <2>5. Succeeded' = Succeeded /\ Excepted \subseteq Excepted'
    BY <2>2, <2>4 DEF Succeeded, Excepted
  <2>6. QED
    BY <2>1, <2>5, CountsStay
<1>3. CASE CountSuccess(f)
  <2>1. /\ task' = [task EXCEPT ![f] = "countException"] /\ task[f] = "countSuccess"
        /\ success' = success + (IF outcome[f] = "success" THEN 1 ELSE 0)
        /\ UNCHANGED <<outcome, exceptions, report>>
    BY <1>3 DEF CountSuccess, Goto, reported
  <2>2. /\ task'[f] = "countException"
        /\ \A g \in Files : g # f => task'[g] = task[g]
    BY <2>1 DEF Shapes
  <2>3. Excepted' = Excepted
    BY <2>1, <2>2 DEF Excepted
  <2>4. f \notin Succeeded
        /\ Succeeded' = IF outcome[f] = "success" THEN Succeeded \cup {f} ELSE Succeeded
    BY <2>1, <2>2 DEF Succeeded
  <2>5. Cardinality(Succeeded') = Cardinality(Succeeded) + (IF outcome[f] = "success" THEN 1 ELSE 0)
    <3>1. Cardinality(Succeeded \cup {f}) = Cardinality(Succeeded) + 1
      BY <2>4, CountedFinite, FS_AddElement
    <3>2. Cardinality(Succeeded) \in Nat
      BY CountedFinite
    <3>3. QED
      BY <2>4, <3>1, <3>2
  <2>6. QED
    BY <2>1, <2>3, <2>5 DEF CountInv
<1>4. CASE CountException(f)
  <2>1. /\ task' = [task EXCEPT ![f] = "save"] /\ task[f] = "countException"
        /\ exceptions' = exceptions + (IF outcome[f] \in {"fatal", "noDir"} THEN 1 ELSE 0)
        /\ UNCHANGED <<outcome, success, report>>
    BY <1>4 DEF CountException, Goto, reported
  <2>2. /\ task'[f] = "save"
        /\ \A g \in Files : g # f => task'[g] = task[g]
    BY <2>1 DEF Shapes
  <2>3. Succeeded' = Succeeded
    BY <2>1, <2>2 DEF Succeeded
  <2>4. f \notin Excepted
        /\ Excepted' = IF outcome[f] \in {"fatal", "noDir"} THEN Excepted \cup {f} ELSE Excepted
    BY <2>1, <2>2 DEF Excepted
  <2>5. Cardinality(Excepted') = Cardinality(Excepted)
          + (IF outcome[f] \in {"fatal", "noDir"} THEN 1 ELSE 0)
    <3>1. Cardinality(Excepted \cup {f}) = Cardinality(Excepted) + 1
      BY <2>4, CountedFinite, FS_AddElement
    <3>2. Cardinality(Excepted) \in Nat
      BY CountedFinite
    <3>3. QED
      BY <2>4, <3>1, <3>2
  <2>6. Cardinality(Excepted) \in Nat
    BY CountedFinite
  <2>7. QED
    BY <2>1, <2>3, <2>5, <2>6 DEF CountInv
<1>5. QED
  BY <1>1, <1>2, <1>3, <1>4 DEF Task

LEMMA MainCounts ==
  ASSUME Shapes, PublishInv, CountInv, Main
  PROVE  CountInv'
<1>1. UNCHANGED <<outcome, success, exceptions>>
  BY DEF Main, AllEnded, AwaitTimeout, ReadMendingDirData, ListSourceResults,
         ReadSuccess, ReadExceptions, MakeBundle, Export, Delete, counts
<1>2. task' = task \/ task' = [f \in Files |-> IF task[f] = "queued" THEN "lost" ELSE task[f]]
  BY DEF Main, AllEnded, AwaitTimeout, ReadMendingDirData, ListSourceResults,
         ReadSuccess, ReadExceptions, MakeBundle, Export, Delete
<1>3. Succeeded' = Succeeded /\ Excepted' = Excepted
  BY <1>1, <1>2 DEF Succeeded, Excepted, Shapes
<1>4. \/ report' = report
      \/ report' = [report EXCEPT !.success = success]
      \/ report' = [report EXCEPT !.exceptions = exceptions]
  BY DEF Main, AllEnded, AwaitTimeout, ReadMendingDirData, ListSourceResults,
         ReadSuccess, ReadExceptions, MakeBundle, Export, Delete, reported
<1>5. QED
  BY <1>1, <1>3, <1>4 DEF CountInv

LEMMA CountInvariant == Spec => [](Shapes /\ PublishInv /\ CountInv)
<1>1. Init => CountInv
  <2>1. SUFFICES ASSUME Init PROVE CountInv
    OBVIOUS
  <2>2. Succeeded = {} /\ Excepted = {}
    BY <2>1 DEF Init, Succeeded, Excepted
  <2>3. Cardinality(Succeeded) = 0 /\ Cardinality(Excepted) = 0
    BY <2>2, FS_EmptySet, Zenon
  <2>4. QED
    BY <2>1, <2>3 DEF Init, CountInv
<1>2. Shapes /\ PublishInv /\ CountInv /\ [Next]_vars => CountInv'
  <2> SUFFICES ASSUME Shapes, PublishInv, CountInv, [Next]_vars
               PROVE  CountInv'
    OBVIOUS
  <2>1. CASE Main
    BY <2>1, MainCounts
  <2>2. CASE \E f \in Files : Task(f)
    BY <2>2, TaskCounts
  <2>3. CASE UNCHANGED vars
    <3>1. UNCHANGED <<task, outcome, success, exceptions, report>>
      BY <2>3 DEF vars, counts, reported
    <3>2. QED
      BY <3>1 DEF CountInv, Succeeded, Excepted
  <2>4. QED
    BY <2>1, <2>2, <2>3 DEF Next
<1>3. QED
  BY <1>1, <1>2, PublishInvariant, PTL DEF Spec

\* The report never claims more successes and exceptions together than there are
\* files, although the two counters are read while tasks may still be counting.
THEOREM RatiosBounded == Spec => []RatiosWithinOne
<1>1. CountInv => RatiosWithinOne
  <2>1. Cardinality(Succeeded) \in Nat /\ Cardinality(Excepted) \in Nat
        /\ Cardinality(Succeeded) + Cardinality(Excepted) <= N
    BY CountedFinite
  <2>2. QED
    BY <2>1, PoolAssumption DEF CountInv, RatiosWithinOne
<1>2. QED
  BY <1>1, CountInvariant, PTL

-----------------------------------------------------------------------------
Over == {f \in Files : task[f] \in {"ended", "lost"}}

\* If main did not give up waiting, no task is left once it has gone on, so that
\* what it reads no longer changes.
FinishInv ==
  /\ at \in Files
  /\ main = "mend" => at = 1 /\ nullDirs = {}
  /\ ~timedOut =>
       /\ main \notin {"mend", "crashed"} => Over = Files
       /\ main = "nullDirs" => nullDirs = (1..(at - 1)) \ dirs
       /\ main \notin {"mend", "crashed", "nullDirs"} => nullDirs = Files \ dirs
       /\ main \in {"readExceptions", "bundle", "export", "delete", "done"}
            => report.success = success

\* While a task can step, main waits, has crashed or has given up.
LEMMA TaskFinishes ==
  ASSUME Shapes, FinishInv, NEW f \in Files, Task(f)
  PROVE  FinishInv'
<1>1. f \notin Over
  BY DEF Over, Task, Start, CreateMendingDir, ReadFrequency, PutFrequency, EndMend,
         CountSuccess, CountException, Save, Publish
<1>2. timedOut \/ main \in {"mend", "crashed"}
  BY <1>1 DEF FinishInv
<1>3. /\ UNCHANGED <<at, timedOut, nullDirs>>
      /\ main' = main \/ main' = "crashed"
  BY DEF Task, Start, CreateMendingDir, ReadFrequency, PutFrequency, EndMend, Escapes,
         CountSuccess, CountException, Save, Publish, reported
<1>4. QED
  BY <1>2, <1>3 DEF FinishInv

LEMMA MainFinishes ==
  ASSUME Shapes, CountInv, FinishInv, Main
  PROVE  FinishInv'
<1> USE PoolAssumption DEF Files
<1>1. CASE AllEnded
  <2>1. /\ main = "mend" /\ main' = "nullDirs" /\ Over' = Files
        /\ UNCHANGED <<at, timedOut, dirs, nullDirs>>
    BY <1>1 DEF AllEnded, Over, results, reported
  <2>2. QED
    BY <2>1 DEF FinishInv
<1>2. CASE AwaitTimeout
  <2>1. main' = "nullDirs" /\ timedOut' = TRUE /\ UNCHANGED at
    BY <1>2 DEF AwaitTimeout
  <2>2. QED
    BY <2>1 DEF FinishInv
<1>3. CASE ReadMendingDirData
  <2>1. /\ main = "nullDirs"
        /\ nullDirs' = IF at \in dirs THEN nullDirs ELSE nullDirs \cup {at}
        /\ IF at < N THEN at' = at + 1 /\ main' = main ELSE at' = 1 /\ main' = "sourceResults"
        /\ UNCHANGED <<task, timedOut, dirs>>
    BY <1>3 DEF ReadMendingDirData, Round, results
  <2>2. Over' = Over
    BY <2>1 DEF Over
  <2>3. ~timedOut => nullDirs' = (1..at) \ dirs
    BY <2>1 DEF FinishInv
  <2>4. QED
    BY <2>1, <2>2, <2>3 DEF FinishInv
<1>4. CASE ListSourceResults \/ MakeBundle
  <2>1. /\ \/ main = "sourceResults" /\ main' \in {"readSuccess", "crashed"}
           \/ main = "bundle" /\ main' \in {"export", "delete"}
        /\ UNCHANGED <<at, task, timedOut, dirs, nullDirs, report, success>>
    BY <1>4 DEF ListSourceResults, MakeBundle, results, reported, counts
  <2>2. Over' = Over
    BY <2>1 DEF Over
  <2>3. QED
    BY <2>1, <2>2 DEF FinishInv
<1>5. CASE ReadSuccess \/ ReadExceptions
  <2>1. /\ \/ main = "readSuccess" /\ main' = "readExceptions"
              /\ report' = [report EXCEPT !.success = success]
           \/ main = "readExceptions" /\ main' = "bundle"
              /\ report' = [report EXCEPT !.exceptions = exceptions]
        /\ UNCHANGED <<at, task, timedOut, dirs, nullDirs, success>>
    BY <1>5 DEF ReadSuccess, ReadExceptions, results, counts
  <2>2. Over' = Over
    BY <2>1 DEF Over
  <2>3. QED
    BY <2>1, <2>2 DEF FinishInv, CountInv
<1>6. CASE Export \/ Delete
  <2>1. /\ main \in {"export", "delete"}
        /\ \/ at < N /\ at' = at + 1 /\ main' = main
           \/ at' = 1 /\ main' \in {"delete", "done"}
        /\ UNCHANGED <<task, timedOut, dirs, nullDirs, report, success>>
    BY <1>6 DEF Export, Delete, Round, reported, counts
  <2>2. Over' = Over
    BY <2>1 DEF Over
  <2>3. QED
    BY <2>1, <2>2 DEF FinishInv
<1>7. QED
  BY <1>1, <1>2, <1>3, <1>4, <1>5, <1>6 DEF Main

\* When the pool ended in time, or there was none, the report says of every file
\* what happened to it.
THEOREM ReportIsExact == Spec => []ReportExact
<1>1. Init => FinishInv
  BY PoolAssumption DEF Init, FinishInv, Files
<1>2. Shapes /\ CountInv /\ FinishInv /\ [Next]_vars => FinishInv'
  <2> SUFFICES ASSUME Shapes, CountInv, FinishInv, [Next]_vars
               PROVE  FinishInv'
    OBVIOUS
  <2>1. CASE Main
    BY <2>1, MainFinishes
  <2>2. CASE \E f \in Files : Task(f)
    BY <2>2, TaskFinishes
  <2>3. CASE UNCHANGED vars
    <3>1. UNCHANGED <<main, at, task, timedOut, dirs, nullDirs, report, success>>
      BY <2>3 DEF vars, counts, results, reported
    <3>2. QED
      BY <3>1 DEF FinishInv, Over
  <2>4. QED
    BY <2>1, <2>2, <2>3 DEF Next
<1>3. Shapes /\ PublishInv /\ CountInv /\ FinishInv => ReportExact
  <2> SUFFICES ASSUME Shapes, PublishInv, CountInv, FinishInv, ~timedOut,
                      main \in {"bundle", "export", "delete", "done"}
               PROVE  /\ report.success = Cardinality(Counted)
                      /\ Files \ nullDirs = dirs
                      /\ dirs \subseteq saved
    BY DEF ReportExact
  <2>1. Over = Files /\ nullDirs = Files \ dirs /\ report.success = success
    BY DEF FinishInv
  <2>2. Counted = Succeeded
    BY <2>1 DEF Counted, Succeeded, Over
  <2>3. report.success = Cardinality(Counted)
    BY <2>1, <2>2 DEF CountInv
  <2>4. dirs \subseteq saved /\ dirs \subseteq Files
    BY DEF PublishInv, Shapes
  <2>5. QED
    BY <2>1, <2>3, <2>4
<1>4. QED
  BY <1>1, <1>2, <1>3, CountInvariant, PTL DEF Spec

-----------------------------------------------------------------------------
\* Induction on the files: a set that has 0 and the successor of each of its
\* numbers below N has all of them.
LEMMA FileInduction ==
  ASSUME NEW K, 0 \in K, \A k \in 0..N : k \in K /\ k < N => k + 1 \in K
  PROVE  \A k \in 0..N : k \in K
<1> DEFINE R == OpToRel(<, Nat)
           T == {k \in 0..N : k \notin K}
<1> SUFFICES ASSUME T # {} PROVE FALSE
  OBVIOUS
<1>1. IsWellFoundedOn(R, Nat)
  BY NatLessThanWellFounded
<1>2. T \subseteq Nat
  OBVIOUS
<1>3. PICK x \in T : \A y \in T : ~(<<y, x>> \in R)
  <2> HIDE DEF R, T
  <2>1. QED
    BY <1>1, <1>2, WFMin
<1>4. x \in 0..N /\ x \notin K /\ x # 0
  OBVIOUS
<1>5. x - 1 \in 0..N /\ x - 1 < N /\ x - 1 \in Nat /\ x \in Nat /\ (x - 1) + 1 = x
  BY <1>4, PoolAssumption
<1>6. x - 1 \notin K
  BY <1>4, <1>5
<1>7. <<x - 1, x>> \in R
  BY <1>5 DEF OpToRel
<1>8. QED
  BY <1>3, <1>5, <1>6, <1>7

\* u has the sums of the counts m up to each file.
Sums(u, m) == u = [n \in 0..N |-> IF n = 0 THEN 0 ELSE u[n - 1] + m[n]]

\* The recursive function that Total is defined with exists.
LEMMA SumsExist ==
  ASSUME NEW m \in [Files -> Nat]
  PROVE  \E u \in [0..N -> Nat] : Sums(u, m)
<1> DEFINE Upto(u, k) == u[0] = 0 /\ \A n \in 1..k : u[n] = u[n - 1] + m[n]
           K == {k \in 0..N : \E u \in [0..N -> Nat] : Upto(u, k)}
<1>1. 0 \in K
  <2> DEFINE z == [n \in 0..N |-> 0]
  <2>1. z \in [0..N -> Nat] /\ z[0] = 0 /\ 0 \in 0..N /\ 1..0 = {}
    BY PoolAssumption
  <2>2. Upto(z, 0)
    BY <2>1
  <2>3. QED
    BY <2>1, <2>2
<1>2. ASSUME NEW k \in 0..N, k \in K, k < N PROVE k + 1 \in K
  <2>1. PICK u \in [0..N -> Nat] : u[0] = 0 /\ \A n \in 1..k : u[n] = u[n - 1] + m[n]
    BY <1>2
  <2>2. /\ k \in Nat /\ N \in Nat /\ k + 1 \in 0..N /\ k + 1 \in Files /\ k + 1 # 0
        /\ \A n \in 1..(k + 1) : (n \in 1..k \/ n = k + 1) /\ n \in 0..N /\ n - 1 \in 0..N /\ n - 1 # k + 1
        /\ \A n \in 1..k : n # k + 1
    BY <1>2, PoolAssumption DEF Files
  <2>3. u[k] \in Nat /\ m[k + 1] \in Nat
    BY <2>2
  <2> DEFINE w == [u EXCEPT ![k + 1] = u[k] + m[k + 1]]
  <2>4. w \in [0..N -> Nat]
    BY <2>2, <2>3
  <2>5. w[k + 1] = u[k] + m[k + 1] /\ \A n \in 0..N : n # k + 1 => w[n] = u[n]
    BY <2>2
  <2> HIDE DEF w
  <2>6. w[0] = 0
    BY <2>1, <2>2, <2>5, PoolAssumption
  <2>7. ASSUME NEW n \in 1..(k + 1) PROVE w[n] = w[n - 1] + m[n]
    <3>1. w[n - 1] = u[n - 1]
      BY <2>2, <2>5
    <3>2. CASE n \in 1..k
      BY <2>1, <2>2, <2>5, <3>1, <3>2
    <3>3. CASE n = k + 1
      <4>1. n - 1 = k
        BY <2>2, <3>3
      <4>2. QED
        BY <2>5, <3>1, <3>3, <4>1
    <3>4. QED
      BY <2>2, <3>2, <3>3
  <2>8. QED
    BY <2>2, <2>4, <2>6, <2>7
<1>3. N \in K
  <2> HIDE DEF K
  <2>1. \A k \in 0..N : k \in K
    BY <1>1, <1>2, FileInduction
  <2>2. QED
    BY <2>1, PoolAssumption
<1>4. PICK u \in [0..N -> Nat] : u[0] = 0 /\ \A n \in 1..N : u[n] = u[n - 1] + m[n]
  BY <1>3
<1>5. \A n \in 0..N : u[n] = IF n = 0 THEN 0 ELSE u[n - 1] + m[n]
  BY <1>4, PoolAssumption
<1>6. Sums(u, m)
  BY <1>5 DEF Sums
<1>7. QED
  BY <1>6

\* Total is the last of such sums.
LEMMA TotalSums ==
  ASSUME NEW m \in [Files -> Nat]
  PROVE  \E u \in [0..N -> Nat] : Sums(u, m) /\ Total(m) = u[N]
<1> DEFINE u == CHOOSE u : Sums(u, m)
<1>1. Sums(u, m)
  BY SumsExist
<1>2. Total(m) = u[N]
  BY DEF Total, Sums
<1> HIDE DEF u
<1> DEFINE K == {n \in 0..N : u[n] \in Nat}
<1>3. u = [n \in 0..N |-> IF n = 0 THEN 0 ELSE u[n - 1] + m[n]]
  BY <1>1 DEF Sums
<1>4. 0 \in K
  BY <1>3, PoolAssumption
<1>5. ASSUME NEW k \in 0..N, k \in K, k < N PROVE k + 1 \in K
  <2>1. k + 1 \in 0..N /\ k + 1 \in Files /\ k + 1 # 0 /\ (k + 1) - 1 = k
    BY <1>5, PoolAssumption DEF Files
  <2>2. u[k + 1] = u[k] + m[k + 1]
    BY <1>3, <2>1
  <2>3. u[k] \in Nat /\ m[k + 1] \in Nat
    BY <1>5, <2>1
  <2>4. QED
    BY <2>1, <2>2, <2>3
<1>6. \A n \in 0..N : n \in K
  <2> HIDE DEF K
  <2>1. QED
    BY <1>4, <1>5, FileInduction
<1>7. u \in [0..N -> Nat]
  BY <1>3, <1>6
<1>8. QED
  BY <1>1, <1>2, <1>7

\* The sum of no counts is 0.
LEMMA TotalZero == Total([f \in Files |-> 0]) = 0
<1> DEFINE m == [f \in Files |-> 0]
<1>1. m \in [Files -> Nat]
  OBVIOUS
<1>2. PICK u \in [0..N -> Nat] : Sums(u, m) /\ Total(m) = u[N]
  <2> HIDE DEF m
  <2>1. QED
    BY <1>1, TotalSums
<1> DEFINE K == {n \in 0..N : u[n] = 0}
<1>3. \A n \in 0..N : u[n] = IF n = 0 THEN 0 ELSE u[n - 1] + m[n]
  <2> HIDE DEF m
  <2>1. QED
    BY <1>2 DEF Sums
<1>4. 0 \in K
  BY <1>3, PoolAssumption
<1>5. ASSUME NEW k \in 0..N, k \in K, k < N PROVE k + 1 \in K
  <2>1. k + 1 \in 0..N /\ k + 1 \in Files /\ k + 1 # 0 /\ (k + 1) - 1 = k
    BY <1>5, PoolAssumption DEF Files
  <2>2. m[k + 1] = 0 /\ u[k] = 0
    BY <1>5, <2>1
  <2>3. u[k + 1] = 0
    BY <1>3, <2>1, <2>2
  <2>4. QED
    BY <2>1, <2>3
<1>6. \A n \in 0..N : n \in K
  <2> HIDE DEF K
  <2>1. QED
    BY <1>4, <1>5, FileInduction
<1>7. u[N] = 0
  BY <1>6, PoolAssumption
<1>8. QED
  BY <1>2, <1>7

\* One more for one file is one more in the sum.
LEMMA TotalAddsOne ==
  ASSUME NEW m \in [Files -> Nat], NEW o \in [Files -> Nat], NEW f \in Files,
         o[f] = m[f] + 1, \A g \in Files : g # f => o[g] = m[g]
  PROVE  Total(o) = Total(m) + 1
<1>1. PICK u \in [0..N -> Nat] : Sums(u, m) /\ Total(m) = u[N]
  BY TotalSums
<1>2. PICK w \in [0..N -> Nat] : Sums(w, o) /\ Total(o) = w[N]
  BY TotalSums
<1>3. /\ \A n \in 0..N : u[n] = IF n = 0 THEN 0 ELSE u[n - 1] + m[n]
      /\ \A n \in 0..N : w[n] = IF n = 0 THEN 0 ELSE w[n - 1] + o[n]
  BY <1>1, <1>2 DEF Sums
<1> DEFINE K == {n \in 0..N : w[n] = u[n] + (IF n < f THEN 0 ELSE 1)}
<1>4. 0 \in K
  <2>1. 0 \in 0..N /\ 0 < f
    BY PoolAssumption DEF Files
  <2>2. u[0] = 0 /\ w[0] = 0
    BY <1>3, <2>1
  <2>3. QED
    BY <2>1, <2>2
<1>5. ASSUME NEW k \in 0..N, k \in K, k < N PROVE k + 1 \in K
  <2>1. /\ k + 1 \in 0..N /\ k + 1 \in Files /\ k + 1 # 0 /\ (k + 1) - 1 = k
        /\ k \in Nat /\ f \in Nat
    BY <1>5, PoolAssumption DEF Files
  <2>2. u[k + 1] = u[k] + m[k + 1] /\ w[k + 1] = w[k] + o[k + 1]
    BY <1>3, <2>1
  <2>3. /\ u[k] \in Nat /\ w[k] \in Nat /\ m[k + 1] \in Nat /\ o[k + 1] \in Nat
        /\ w[k] = u[k] + (IF k < f THEN 0 ELSE 1)
    BY <1>5, <2>1
  <2>4. o[k + 1] = m[k + 1] + (IF k + 1 = f THEN 1 ELSE 0)
    BY <2>1, <2>3
  <2>5. w[k + 1] = u[k + 1] + (IF k + 1 < f THEN 0 ELSE 1)
    BY <2>1, <2>2, <2>3, <2>4
  <2>6. QED
    BY <2>1, <2>5
<1>6. \A n \in 0..N : n \in K
  <2> HIDE DEF K
  <2>1. QED
    BY <1>4, <1>5, FileInduction
<1>7. w[N] = u[N] + 1
  <2>1. N \in 0..N /\ ~(N < f)
    BY PoolAssumption DEF Files
  <2>2. QED
    BY <1>6, <2>1
<1>8. QED
  BY <1>1, <1>2, <1>7

-----------------------------------------------------------------------------
\* What each step does to the tasks that are running: only Start adds one.
LEMMA RunningFinite == IsFiniteSet(Running) /\ Cardinality(Running) \in Nat
<1>1. Running \subseteq Files /\ IsFiniteSet(Files)
  BY CountedFinite DEF Running
<1>2. QED
  BY <1>1, FS_Subset, FS_CardinalityType

LEMMA RunningShrinks ==
  ASSUME TypeOK, threads' = threads, Running' \subseteq Running
  PROVE  (Cardinality(Running) <= threads)'
<1>1. IsFiniteSet(Running') /\ Cardinality(Running') <= Cardinality(Running)
  BY RunningFinite, FS_Subset
<1>2. Cardinality(Running') \in Nat
  BY <1>1, FS_CardinalityType
<1>3. threads \in Nat /\ Cardinality(Running) <= threads
  BY PoolAssumption DEF TypeOK
<1>4. QED
  BY <1>1, <1>2, <1>3, RunningFinite

\* The types, with what they rest on: nothing is exported before the bundle is
\* made, and a count that was read and not put back belongs to a mend that has
\* room for it.
TypeInv ==
  /\ TypeOK
  /\ main \notin {"export", "delete", "done", "crashed"} => exported = {}
  /\ \A f \in Files : readFrequency[f] # -1 => task[f] = "mend" /\ met[f] < MaxUnknown

LEMMA TaskTypes ==
  ASSUME TypeInv, NEW f \in Files, Task(f)
  PROVE  TypeInv'
<1> USE DEF invocation, counts, results, reported, mending
<1>0. /\ task \in [Files -> Steps] /\ threads \in Nat
      /\ \A g \in Files : readFrequency[g] # -1 => task[g] = "mend" /\ met[g] < MaxUnknown
  BY PoolAssumption DEF TypeInv, TypeOK, Steps
<1>1. UNCHANGED <<threads, reportPerSource, at, timedOut, nullDirs, report, bundle, exported>>
  BY DEF Task, Start, CreateMendingDir, ReadFrequency, PutFrequency, EndMend,
         CountSuccess, CountException, Save, Publish
<1>2. main' = main \/ main' = "crashed"
  BY DEF Task, Start, CreateMendingDir, ReadFrequency, PutFrequency, EndMend, Escapes,
         CountSuccess, CountException, Save, Publish
<1>3. \E s \in Steps : task' = [task EXCEPT ![f] = s] /\ (s = task[f] \/ task[f] # "mend"
                                                         \/ readFrequency[f] = -1)
  <2>1. CASE ReadFrequency(f) \/ PutFrequency(f)
    <3>1. task' = [task EXCEPT ![f] = task[f]] /\ task[f] \in Steps
      BY <1>0, <2>1 DEF ReadFrequency, PutFrequency
    <3>2. QED
      BY <3>1
  <2>2. CASE Start(f) \/ CreateMendingDir(f) \/ EndMend(f) \/ CountSuccess(f)
             \/ CountException(f) \/ Save(f) \/ Publish(f)
    BY <2>2 DEF Start, CreateMendingDir, EndMend, CountSuccess, CountException, Save,
                Publish, Escapes, Goto, Steps
  <2>3. QED
    BY <2>1, <2>2 DEF Task
<1>4. PICK s \in Steps : task' = [task EXCEPT ![f] = s] /\ (s = task[f] \/ task[f] # "mend"
                                                            \/ readFrequency[f] = -1)
  BY <1>3
<1>5. /\ task' \in [Files -> Steps] /\ task'[f] = s
      /\ \A g \in Files : g # f => task'[g] = task[g]
  BY <1>0, <1>4
<1>6. (Cardinality(Running) <= threads)'
  <2>1. CASE Start(f)
    <3>1. task[f] = "queued" /\ task'[f] = "createDir" /\ Cardinality(Running) < threads
      BY <1>0, <2>1 DEF Start, Goto
    <3>2. Running' = Running \cup {f} /\ f \notin Running
      BY <1>5, <3>1 DEF Running
    <3>3. Cardinality(Running') = Cardinality(Running) + 1
      BY <3>2, RunningFinite, FS_AddElement
    <3>4. QED
      BY <1>0, <1>1, <3>1, <3>3, RunningFinite
  <2>2. CASE ~Start(f)
    <3>1. task[f] \notin {"queued", "ended", "lost"}
      BY <2>2 DEF Task, CreateMendingDir, ReadFrequency, PutFrequency, EndMend,
                  CountSuccess, CountException, Save, Publish
    <3>2. Running' \subseteq Running
      BY <1>5, <3>1 DEF Running
    <3>3. QED
      BY <1>1, <3>2, RunningShrinks DEF TypeInv
  <2>3. QED
    BY <2>1, <2>2
<1>7. /\ outcome' \in [Files -> {"none", "success", "unsuccessful", "fatal", "noDir"}]
      /\ saved' \subseteq Files /\ dirs' \subseteq Files /\ onDisk' \subseteq Files
  <2>1. /\ outcome \in [Files -> {"none", "success", "unsuccessful", "fatal", "noDir"}]
        /\ saved \subseteq Files /\ dirs \subseteq Files /\ onDisk \subseteq Files
    BY DEF TypeInv, TypeOK
  <2>2. \/ outcome' = outcome
        \/ \E o \in {"none", "success", "unsuccessful", "fatal", "noDir"} :
             outcome' = [outcome EXCEPT ![f] = o]
    BY DEF Task, Start, CreateMendingDir, ReadFrequency, PutFrequency, EndMend,
           CountSuccess, CountException, Save, Publish
  <2>3. /\ saved' \in {saved, saved \cup {f}} /\ dirs' \in {dirs, dirs \cup {f}}
        /\ onDisk' \in {onDisk, onDisk \cup {f}}
    BY DEF Task, Start, CreateMendingDir, ReadFrequency, PutFrequency, EndMend,
           CountSuccess, CountException, Save, Publish
  <2>4. QED
    BY <2>1, <2>2, <2>3
<1>8. success' \in Nat /\ exceptions' \in Nat
  <2>1. success \in Nat /\ exceptions \in Nat
    BY DEF TypeInv, TypeOK
  <2>2. success' \in {success, success + 1} /\ exceptions' \in {exceptions, exceptions + 1}
    BY <2>1 DEF Task, Start, CreateMendingDir, ReadFrequency, PutFrequency, EndMend,
                CountSuccess, CountException, Save, Publish
  <2>3. QED
    BY <2>1, <2>2
<1>9. /\ frequency' \in Nat /\ readFrequency' \in [Files -> Nat \cup {-1}]
      /\ met' \in [Files -> 0..MaxUnknown]
      /\ \A g \in Files : readFrequency'[g] # -1 => task'[g] = "mend" /\ met'[g] < MaxUnknown
  <2>1. /\ frequency \in Nat /\ readFrequency \in [Files -> Nat \cup {-1}]
        /\ met \in [Files -> 0..MaxUnknown] /\ MaxUnknown \in Nat
    BY PoolAssumption DEF TypeInv, TypeOK
  <2>2. CASE ReadFrequency(f)
    <3>1. /\ task[f] = "mend" /\ met[f] < MaxUnknown
          /\ readFrequency' = [readFrequency EXCEPT ![f] = frequency]
          /\ UNCHANGED <<task, frequency, met>>
      BY <2>2 DEF ReadFrequency
    <3>2. QED
      BY <1>0, <2>1, <3>1
  <2>3. CASE PutFrequency(f)
    <3>1. /\ readFrequency[f] # -1 /\ frequency' = readFrequency[f] + 1
          /\ readFrequency' = [readFrequency EXCEPT ![f] = -1]
          /\ met' = [met EXCEPT ![f] = met[f] + 1] /\ task' = task
      BY <2>3 DEF PutFrequency
    <3>2. readFrequency[f] \in Nat /\ met[f] < MaxUnknown /\ met[f] \in Nat
      BY <1>0, <2>1, <3>1
    <3>3. met[f] + 1 \in 0..MaxUnknown
      BY <2>1, <3>2
    <3>4. /\ met' \in [Files -> 0..MaxUnknown] /\ readFrequency'[f] = -1
          /\ \A g \in Files : g # f => met'[g] = met[g] /\ readFrequency'[g] = readFrequency[g]
      BY <2>1, <3>1, <3>3
    <3>5. QED
      BY <1>0, <2>1, <3>1, <3>2, <3>4
  <2>4. CASE ~ReadFrequency(f) /\ ~PutFrequency(f)
    <3>1. UNCHANGED <<frequency, readFrequency, met>>
      BY <2>4 DEF Task, Start, CreateMendingDir, EndMend, CountSuccess, CountException,
                  Save, Publish
    <3>2. QED
      BY <1>0, <1>4, <1>5, <2>1, <3>1
  <2>5. QED
    BY <2>2, <2>3, <2>4
<1>10. QED
  BY <1>1, <1>2, <1>5, <1>6, <1>7, <1>8, <1>9 DEF TypeInv, TypeOK, Steps

LEMMA MainTypes ==
  ASSUME TypeInv, Main
  PROVE  TypeInv'
<1> USE DEF invocation, counts, results, reported, mending
<1>1. UNCHANGED <<threads, reportPerSource, outcome, frequency, readFrequency, met, success,
                  exceptions, saved, dirs>>
  BY DEF Main, AllEnded, AwaitTimeout, ReadMendingDirData, ListSourceResults,
         ReadSuccess, ReadExceptions, MakeBundle, Export, Delete
<1>2. task' = task \/ task' = [f \in Files |-> IF task[f] = "queued" THEN "lost" ELSE task[f]]
  BY DEF Main, AllEnded, AwaitTimeout, ReadMendingDirData, ListSourceResults,
         ReadSuccess, ReadExceptions, MakeBundle, Export, Delete
<1>3. /\ task' \in [Files -> Steps]
      /\ \A f \in Files : task'[f] = task[f] \/ (task[f] = "queued" /\ task'[f] = "lost")
  BY <1>2 DEF TypeInv, TypeOK, Steps
<1>4. (Cardinality(Running) <= threads)'
  <2>1. Running' \subseteq Running
    BY <1>3 DEF Running
  <2>2. QED
    BY <1>1, <2>1, RunningShrinks DEF TypeInv
<1>5. at' \in Files
  <2>1. at \in Files
    BY DEF TypeInv, TypeOK
  <2>2. at' = at \/ at' = 1 \/ (at < N /\ at' = at + 1)
    BY DEF Main, AllEnded, AwaitTimeout, ReadMendingDirData, ListSourceResults,
           ReadSuccess, ReadExceptions, MakeBundle, Export, Delete, Round
  <2>3. QED
    BY <2>1, <2>2, PoolAssumption DEF Files
<1>6. /\ main' \in {"mend", "nullDirs", "sourceResults", "readSuccess", "readExceptions",
                    "bundle", "export", "delete", "done", "crashed"}
      /\ timedOut' \in BOOLEAN
      /\ main' \notin {"export", "delete", "done", "crashed"}
           => main \notin {"export", "delete", "done", "crashed"} /\ exported' = exported
  BY DEF TypeInv, TypeOK, Main, AllEnded, AwaitTimeout, ReadMendingDirData,
         ListSourceResults, ReadSuccess, ReadExceptions, MakeBundle, Export, Delete, Round
<1>7. report' \in [success : Nat, exceptions : Nat] /\ nullDirs' \subseteq Files
      /\ onDisk' \subseteq Files
  BY DEF TypeInv, TypeOK, Main, AllEnded, AwaitTimeout, ReadMendingDirData,
         ListSourceResults, ReadSuccess, ReadExceptions, MakeBundle, Export, Delete
<1>8. bundle' \subseteq Files /\ exported' \subseteq bundle'
  BY DEF TypeInv, TypeOK, Main, AllEnded, AwaitTimeout, ReadMendingDirData,
         ListSourceResults, ReadSuccess, ReadExceptions, MakeBundle, Export, Delete
<1>9. \A f \in Files : readFrequency'[f] # -1 => task'[f] = "mend" /\ met'[f] < MaxUnknown
  BY <1>1, <1>3 DEF TypeInv
<1>10. QED
  BY <1>1, <1>3, <1>4, <1>5, <1>6, <1>7, <1>8, <1>9 DEF TypeInv, TypeOK, Steps

LEMMA TypeInvariant == Spec => []TypeInv
<1>1. Init => TypeInv
  <2> SUFFICES ASSUME Init PROVE TypeInv
    OBVIOUS
  <2>1. Running = {}
    BY DEF Init, Running
  <2>2. Cardinality(Running) = 0
    BY <2>1, FS_EmptySet, Zenon
  <2>3. threads \in Nat /\ Cardinality(Running) <= threads
    BY <2>2, PoolAssumption DEF Init
  <2>4. 1 \in Files
    BY PoolAssumption DEF Files
  <2>5. /\ task \in [Files -> Steps] /\ readFrequency \in [Files -> Nat \cup {-1}]
        /\ outcome \in [Files -> {"none", "success", "unsuccessful", "fatal", "noDir"}]
        /\ met \in [Files -> 0..MaxUnknown]
        /\ \A f \in Files : readFrequency[f] = -1
    BY PoolAssumption DEF Init, Steps
  <2>6. /\ report \in [success : Nat, exceptions : Nat]
        /\ frequency \in Nat /\ success \in Nat /\ exceptions \in Nat
    BY DEF Init
  <2>7. QED
    BY <2>3, <2>4, <2>5, <2>6 DEF Init, TypeInv, TypeOK, Steps
<1>2. TypeInv /\ [Next]_vars => TypeInv'
  <2> SUFFICES ASSUME TypeInv, [Next]_vars PROVE TypeInv'
    OBVIOUS
  <2>1. CASE Main
    BY <2>1, MainTypes
  <2>2. CASE \E f \in Files : Task(f)
    BY <2>2, TaskTypes
  <2>3. CASE UNCHANGED vars
    BY <2>3 DEF vars, invocation, counts, results, reported, mending, TypeInv, TypeOK, Running
  <2>4. QED
    BY <2>1, <2>2, <2>3 DEF Next
<1>3. QED
  BY <1>1, <1>2, PTL DEF Spec

\* Type correctness; never more tasks run than the pool has threads, and only
\* mending directories of the bundle are exported.
THEOREM PoolTypeCorrect == Spec => []TypeOK
<1>1. TypeInv => TypeOK
  BY DEF TypeInv
<1>2. QED
  BY <1>1, TypeInvariant, PTL

-----------------------------------------------------------------------------
\* Two files in their mend are two running tasks, which one thread does not have.
LEMMA OneMends ==
  ASSUME TypeInv, SingleThreaded, NEW f \in Files, NEW g \in Files,
         task[f] = "mend", task[g] = "mend"
  PROVE  f = g
<1> SUFFICES ASSUME f # g PROVE FALSE
  OBVIOUS
<1>1. {f} \cup {g} \subseteq Running
  BY DEF Running
<1>2. IsFiniteSet({f}) /\ Cardinality({f}) = 1
  BY FS_Singleton
<1>3. Cardinality({f} \cup {g}) = 2
  BY <1>2, FS_AddElement
<1>4. Cardinality({f} \cup {g}) <= Cardinality(Running)
  BY <1>1, RunningFinite, FS_Subset
<1>5. Cardinality(Running) <= 1
  BY DEF TypeInv, TypeOK, SingleThreaded
<1>6. QED
  BY <1>3, <1>4, <1>5, RunningFinite

\* The count in the map, and each count that was read and not put back, is at
\* most the number met; with one thread nobody counts between a read and its put.
FreqInv ==
  /\ Total(met) \in Nat
  /\ FrequencySound
  /\ \A f \in Files : readFrequency[f] <= Total(met)
  /\ SingleThreaded => \A f \in Files : readFrequency[f] \in {-1, frequency}

LEMMA FreqStays ==
  ASSUME FreqInv, UNCHANGED <<threads, frequency, readFrequency, met>>
  PROVE  FreqInv'
<1>1. Total(met)' = Total(met)
  BY DEF Total
<1>2. QED
  BY <1>1 DEF FreqInv, FrequencySound, SingleThreaded

LEMMA TaskFreq ==
  ASSUME TypeInv, FreqInv, NEW f \in Files, Task(f)
  PROVE  FreqInv'
<1>0. /\ frequency \in Nat /\ readFrequency \in [Files -> Nat \cup {-1}]
      /\ met \in [Files -> 0..MaxUnknown] /\ MaxUnknown \in Nat
      /\ \A g \in Files : readFrequency[g] # -1 => task[g] = "mend"
  BY PoolAssumption DEF TypeInv, TypeOK
<1>1. CASE ReadFrequency(f)
  <2>1. /\ readFrequency' = [readFrequency EXCEPT ![f] = frequency]
        /\ UNCHANGED <<threads, frequency, met>>
    BY <1>1 DEF ReadFrequency, invocation
  <2>2. Total(met)' = Total(met)
    BY <2>1 DEF Total
  <2>3. \A g \in Files : readFrequency'[g] = IF g = f THEN frequency ELSE readFrequency[g]
    BY <1>0, <2>1
  <2>4. QED
    BY <1>0, <2>1, <2>2, <2>3 DEF FreqInv, FrequencySound, SingleThreaded
<1>2. CASE PutFrequency(f)
  <2>1. /\ readFrequency[f] # -1 /\ frequency' = readFrequency[f] + 1
        /\ readFrequency' = [readFrequency EXCEPT ![f] = -1]
        /\ met' = [met EXCEPT ![f] = met[f] + 1] /\ threads' = threads
    BY <1>2 DEF PutFrequency, invocation
  <2>2. Total(met)' = Total(met) + 1
    <3>1. /\ met \in [Files -> Nat] /\ met' \in [Files -> Nat] /\ met'[f] = met[f] + 1
          /\ \A g \in Files : g # f => met'[g] = met[g]
      BY <1>0, <2>1
    <3>2. Total(met') = Total(met) + 1
      BY <3>1, TotalAddsOne
    <3>3. QED
      BY <3>2 DEF Total
  <2>3. readFrequency[f] \in Nat /\ readFrequency[f] <= Total(met) /\ Total(met) \in Nat
    BY <1>0, <2>1 DEF FreqInv
  <2>4. \A g \in Files : readFrequency'[g] = IF g = f THEN -1 ELSE readFrequency[g]
    BY <1>0, <2>1
  <2>5. SingleThreaded => \A g \in Files : readFrequency'[g] = -1
    <3> SUFFICES ASSUME SingleThreaded, NEW g \in Files, g # f PROVE readFrequency'[g] = -1
      BY <2>4
    <3>1. readFrequency[g] # -1 => g = f
      BY <1>0, <2>1, OneMends
    <3>2. QED
      BY <2>4, <3>1
  <2>6. \A g \in Files : readFrequency'[g] <= Total(met) + 1
    <3>1. \A g \in Files : readFrequency[g] \in Int /\ readFrequency[g] <= Total(met)
      BY <1>0 DEF FreqInv
    <3>2. QED
      BY <2>3, <2>4, <3>1
  <2>7. SingleThreaded => frequency' = Total(met) + 1
    BY <2>1 DEF FreqInv, FrequencySound
  <2>8. frequency' <= Total(met) + 1 /\ frequency' > 0
    BY <2>1, <2>3
  <2>9. SingleThreaded' <=> SingleThreaded
    BY <2>1 DEF SingleThreaded
  <2>10. FrequencySound'
    BY <2>2, <2>7, <2>8, <2>9 DEF FrequencySound
  <2>11. QED
    BY <2>2, <2>3, <2>5, <2>6, <2>9, <2>10 DEF FreqInv
<1>3. CASE ~ReadFrequency(f) /\ ~PutFrequency(f)
  <2>1. UNCHANGED <<threads, frequency, readFrequency, met>>
    BY <1>3 DEF Task, Start, CreateMendingDir, EndMend, CountSuccess, CountException,
                Save, Publish, invocation, mending
  <2>2. QED
    BY <2>1, FreqStays
<1>4. QED
  BY <1>1, <1>2, <1>3

\* Although the tasks count unknown diagnostics in a map without a lock, the map
\* never counts more than were met, holds every label that was met, and with one
\* thread is exact.
THEOREM FrequencyIsSound == Spec => []FrequencySound
<1>1. Init => FreqInv
  <2> SUFFICES ASSUME Init PROVE FreqInv
    OBVIOUS
  <2>1. Total(met) = 0
    BY TotalZero DEF Init
  <2>2. frequency = 0 /\ \A f \in Files : readFrequency[f] = -1
    BY DEF Init
  <2>3. QED
    BY <2>1, <2>2 DEF FreqInv, FrequencySound
<1>2. TypeInv /\ FreqInv /\ [Next]_vars => FreqInv'
  <2> SUFFICES ASSUME TypeInv, FreqInv, [Next]_vars PROVE FreqInv'
    OBVIOUS
  <2>1. CASE Main \/ UNCHANGED vars
    <3>1. UNCHANGED <<threads, frequency, readFrequency, met>>
      BY <2>1 DEF Main, AllEnded, AwaitTimeout, ReadMendingDirData, ListSourceResults,
                  ReadSuccess, ReadExceptions, MakeBundle, Export, Delete, vars,
                  invocation, mending
    <3>2. QED
      BY <3>1, FreqStays
  <2>2. CASE \E f \in Files : Task(f)
    BY <2>2, TaskFreq
  <2>3. QED
    BY <2>1, <2>2 DEF Next
<1>3. FreqInv => FrequencySound
  BY DEF FreqInv
<1>4. QED
  BY <1>1, <1>2, <1>3, TypeInvariant, PTL DEF Spec
=============================================================================
