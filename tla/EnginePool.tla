------------------------------ MODULE EnginePool ------------------------------
(***************************************************************************)
(* MendingEngine.execute and Launcher.main: the source files are mended    *)
(* one after the other, or by the tasks of a fixed thread pool that the    *)
(* main thread waits 60 minutes for, then the report is put together, the  *)
(* results are exported and the mending directories deleted.               *)
(*                                                                         *)
(* The mending of a file (module MendingLoop) appears as its outcome and   *)
(* as its accesses to the one map that all files share,                    *)
(* unknownDiagsFrequency: a diagnostic's count is read and put back in two *)
(* steps.  The map is modelled for one label.  After the 60 minutes the    *)
(* tasks that run go on running beside the main thread, whose reads of the *)
(* counters and of mendingDirDatas are steps of their own.                 *)
(***************************************************************************)
EXTENDS Integers, FiniteSets

CONSTANTS
  N,               \* number of input files
  ThreadOptions,   \* values of the option that sets the number of threads
  MaxUnknown       \* bound: unknown diagnostics counted per file

ASSUME PoolAssumption ==
  /\ N \in Nat \ {0}
  /\ ThreadOptions \subseteq Nat \ {0}
  /\ MaxUnknown \in Nat

Files == 1..N

VARIABLES
  threads,      \* menderInvocation.getThreads()
  reportPerSource,
  main,         \* the next step of the main thread
  at,           \* the loop index of its current loop over the files
  task,         \* the next step of the mending of each file
  outcome,      \* the SourceResult of each file
  frequency,    \* unknownDiagsFrequency of the one label
  readFrequency,\* what each file's mend read of it and has not put back
  met,          \* unknown diagnostics each file has counted
  success,      \* successCount(Atomic)
  exceptions,   \* exceptionCount(Atomic)
  saved,        \* files whose source report is written
  dirs,         \* files whose mendingDirDatas entry is set
  onDisk,       \* files whose mending directory is on disk
  timedOut,     \* awaitTermination gave up
  nullDirs,     \* nullMendingDirs
  report,       \* the counts of the CMenderReport
  bundle,       \* the mending directories handed to Launcher
  exported      \* files whose mending directory has been exported

counts == <<success, exceptions>>
results == <<saved, dirs, onDisk, exported>>
reported == <<nullDirs, report, bundle>>
mending == <<frequency, readFrequency, met>>
invocation == <<threads, reportPerSource>>
vars == <<invocation, main, at, task, outcome, mending, counts, results, timedOut, reported>>

SingleThreaded == threads = 1

\* sourceResults is allocated if the reports are written per source.
SourceResultsAllocated == reportPerSource

Init ==
  /\ threads \in ThreadOptions
  /\ reportPerSource \in BOOLEAN
  /\ main = "mend" /\ at = 1
  /\ task = [f \in Files |-> "queued"]
  /\ outcome = [f \in Files |-> "none"]
  /\ frequency = 0
  /\ readFrequency = [f \in Files |-> -1]
  /\ met = [f \in Files |-> 0]
  /\ success = 0 /\ exceptions = 0
  /\ saved = {} /\ dirs = {} /\ onDisk = {}
  /\ timedOut = FALSE
  /\ nullDirs = {}
  /\ report = [success |-> 0, exceptions |-> 0]
  /\ bundle = {}
  /\ exported = {}

Running == {f \in Files : task[f] \notin {"queued", "ended", "lost"}}

Goto(f, step) == task' = [task EXCEPT ![f] = step]

\* An exception leaves the lambda of a task and is kept in a Future nobody reads;
\* without a pool it leaves execute and main.
Escapes(f) ==
  /\ Goto(f, "lost")
  /\ main' = IF SingleThreaded THEN "crashed" ELSE main

-----------------------------------------------------------------------------
\* The tasks are taken in the order of the files, by at most the threads of the pool.
Start(f) ==
  /\ task[f] = "queued"
  /\ \A g \in 1..(f - 1) : task[g] # "queued"
  /\ Cardinality(Running) < threads
  /\ main # "crashed"
  /\ Goto(f, "createDir")
  /\ UNCHANGED <<invocation, main, at, outcome, mending, counts, results, timedOut, reported>>

\* createMendingDir, which may fail after it made the directory.  Without a pool
\* such a file is skipped; a task goes on with the result mend returns.
CreateMendingDir(f) ==
  /\ task[f] = "createDir"
  /\ \/ /\ onDisk' = onDisk \cup {f}
        /\ Goto(f, "mend")
        /\ UNCHANGED outcome
     \/ /\ onDisk' \in {onDisk, onDisk \cup {f}}
        /\ outcome' = [outcome EXCEPT ![f] = "noDir"]
        /\ Goto(f, IF SingleThreaded THEN "ended" ELSE "countSuccess")
  /\ UNCHANGED <<invocation, main, at, mending, counts, saved, dirs, exported, timedOut, reported>>

\* unknownDiagsFrequency.getOrDefault and put, for one unknown diagnostic.
ReadFrequency(f) ==
  /\ task[f] = "mend" /\ readFrequency[f] = -1 /\ met[f] < MaxUnknown
  /\ readFrequency' = [readFrequency EXCEPT ![f] = frequency]
  /\ UNCHANGED <<invocation, main, at, task, outcome, frequency, met, counts, results, timedOut, reported>>

\* Mutant: the count is put back as it was read.
PutFrequencyUnchanged(f) ==
  /\ task[f] = "mend" /\ readFrequency[f] # -1
  /\ frequency' = readFrequency[f]
  /\ readFrequency' = [readFrequency EXCEPT ![f] = -1]
  /\ met' = [met EXCEPT ![f] = @ + 1]
  /\ UNCHANGED <<invocation, main, at, task, outcome, counts, results, timedOut, reported>>

PutFrequency(f) ==
  /\ task[f] = "mend" /\ readFrequency[f] # -1
  /\ frequency' = readFrequency[f] + 1
  /\ readFrequency' = [readFrequency EXCEPT ![f] = -1]
  /\ met' = [met EXCEPT ![f] = @ + 1]
  /\ UNCHANGED <<invocation, main, at, task, outcome, counts, results, timedOut, reported>>

\* The loop of mend ends, or an exception leaves it (an export without a result).
EndMend(f) ==
  /\ task[f] = "mend" /\ readFrequency[f] = -1
  /\ \/ /\ \E o \in {"success", "unsuccessful", "fatal"} : outcome' = [outcome EXCEPT ![f] = o]
        /\ Goto(f, "countSuccess")
        /\ UNCHANGED main
     \/ Escapes(f) /\ UNCHANGED outcome
  /\ UNCHANGED <<invocation, at, mending, counts, results, timedOut, reported>>

\* Mutant: a file counts as a success unless it ended with an exception.
CountSuccessUnlessFatal(f) ==
  /\ task[f] = "countSuccess"
  /\ success' = success + (IF outcome[f] \in {"success", "unsuccessful"} THEN 1 ELSE 0)
  /\ Goto(f, "countException")
  /\ UNCHANGED <<invocation, main, at, outcome, mending, exceptions, results, timedOut, reported>>

CountSuccess(f) ==
  /\ task[f] = "countSuccess"
  /\ success' = success + (IF outcome[f] = "success" THEN 1 ELSE 0)
  /\ Goto(f, "countException")
  /\ UNCHANGED <<invocation, main, at, outcome, mending, exceptions, results, timedOut, reported>>

\* Mutant: the condition on the exception is dropped.
CountExceptionAlways(f) ==
  /\ task[f] = "countException"
  /\ exceptions' = exceptions + 1
  /\ Goto(f, "save")
  /\ UNCHANGED <<invocation, main, at, outcome, mending, success, results, timedOut, reported>>

CountException(f) ==
  /\ task[f] = "countException"
  /\ exceptions' = exceptions + (IF outcome[f] \in {"fatal", "noDir"} THEN 1 ELSE 0)
  /\ Goto(f, "save")
  /\ UNCHANGED <<invocation, main, at, outcome, mending, success, results, timedOut, reported>>

\* Mutant: the directory is published first, and the source report left for later.
SavePublishingFirst(f) ==
  /\ task[f] = "save"
  /\ dirs' = dirs \cup {f}
  /\ Goto(f, "publish")
  /\ UNCHANGED <<invocation, main, at, outcome, mending, counts, saved, onDisk, exported, timedOut, reported>>

\* The source report is written, which fails without a mending directory and may
\* fail with one; or the result goes to sourceResults, which is null.
Save(f) ==
  /\ task[f] = "save"
  /\ \/ /\ reportPerSource /\ outcome[f] # "noDir"
        /\ saved' = saved \cup {f}
        /\ Goto(f, "publish")
        /\ UNCHANGED main
     \/ reportPerSource /\ Escapes(f) /\ UNCHANGED saved
     \/ /\ ~reportPerSource
        /\ IF SourceResultsAllocated THEN Goto(f, "publish") /\ UNCHANGED main ELSE Escapes(f)
        /\ UNCHANGED saved
  /\ UNCHANGED <<invocation, at, outcome, mending, counts, dirs, onDisk, exported, timedOut, reported>>

\* mendingDirDatas[i] is set, as the last thing a task does.
Publish(f) ==
  /\ task[f] = "publish"
  /\ dirs' = dirs \cup {f}
  /\ Goto(f, "ended")
  /\ UNCHANGED <<invocation, main, at, outcome, mending, counts, saved, onDisk, exported, timedOut, reported>>

Task(f) == \/ Start(f) \/ CreateMendingDir(f) \/ ReadFrequency(f) \/ PutFrequency(f)
           \/ EndMend(f) \/ CountSuccess(f) \/ CountException(f) \/ Save(f) \/ Publish(f)

-----------------------------------------------------------------------------
\* The main thread has gone through all files, or the pool has terminated.
AllEnded ==
  /\ main = "mend"
  /\ \A f \in Files : task[f] \in {"ended", "lost"}
  /\ main' = "nullDirs"
  /\ UNCHANGED <<invocation, at, task, outcome, mending, counts, results, timedOut, reported>>

\* Mutant: the pool is waited for without a limit.
AwaitForever == main = "mend" /\ FALSE /\ UNCHANGED vars

\* awaitTermination returns false or is interrupted: shutdownNow empties the
\* queue; tasks that run are only interrupted.
AwaitTimeout ==
  /\ main = "mend" /\ ~SingleThreaded
  /\ \E f \in Files : task[f] \notin {"ended", "lost"}
  /\ task' = [f \in Files |-> IF task[f] = "queued" THEN "lost" ELSE task[f]]
  /\ timedOut' = TRUE
  /\ main' = "nullDirs"
  /\ UNCHANGED <<invocation, at, outcome, mending, counts, results, reported>>

\* One round of a loop over the files that moves on to step when it is over.
Round(step) ==
  IF at < N THEN at' = at + 1 /\ UNCHANGED main ELSE at' = 1 /\ main' = step

ReadMendingDirData ==
  /\ main = "nullDirs"
  /\ nullDirs' = IF at \in dirs THEN nullDirs ELSE nullDirs \cup {at}
  /\ Round("sourceResults")
  /\ UNCHANGED <<invocation, task, outcome, mending, counts, results, timedOut, report, bundle>>

\* Arrays.stream(sourceResults) when the reports are not per source.
ListSourceResults ==
  /\ main = "sourceResults"
  /\ main' = IF reportPerSource \/ SourceResultsAllocated THEN "readSuccess" ELSE "crashed"
  /\ UNCHANGED <<invocation, at, task, outcome, mending, counts, results, timedOut, reported>>

ReadSuccess ==
  /\ main = "readSuccess"
  /\ report' = [report EXCEPT !.success = success]
  /\ main' = "readExceptions"
  /\ UNCHANGED <<invocation, at, task, outcome, mending, counts, results, timedOut, nullDirs, bundle>>

ReadExceptions ==
  /\ main = "readExceptions"
  /\ report' = [report EXCEPT !.exceptions = exceptions]
  /\ main' = "bundle"
  /\ UNCHANGED <<invocation, at, task, outcome, mending, counts, results, timedOut, nullDirs, bundle>>

\* The bundle is made; ResultsExporter writes the report, or exports nothing.
MakeBundle ==
  /\ main = "bundle"
  /\ bundle' = dirs
  /\ main' \in {"export", "delete"}
  /\ UNCHANGED <<invocation, at, task, outcome, mending, counts, results, timedOut, nullDirs, report>>

\* Mutant: files without a mending directory are exported too.
ExportNullDirs ==
  /\ main = "export"
  /\ exported' = exported \cup {at}
  /\ Round("delete")
  /\ UNCHANGED <<invocation, task, outcome, mending, counts, saved, dirs, onDisk, timedOut, reported>>

\* exportMendingDir copies the directory, with the source report; the first
\* IOException ends the export of all the directories that are left.
Export ==
  /\ main = "export"
  /\ \/ /\ at \notin bundle \/ at \in saved \cap onDisk
        /\ exported' = IF at \in bundle THEN exported \cup {at} ELSE exported
        /\ Round("delete")
     \/ at \in bundle /\ at' = 1 /\ main' = "delete" /\ UNCHANGED exported
  /\ UNCHANGED <<invocation, task, outcome, mending, counts, saved, dirs, onDisk, timedOut, reported>>

\* Launcher deletes the mending directories; a failure is logged.
Delete ==
  /\ main = "delete"
  /\ onDisk' \in IF at \in bundle THEN {onDisk, onDisk \ {at}} ELSE {onDisk}
  /\ Round("done")
  /\ UNCHANGED <<invocation, task, outcome, mending, counts, saved, dirs, exported, timedOut, reported>>

Main == \/ AllEnded \/ AwaitTimeout \/ ReadMendingDirData \/ ListSourceResults
        \/ ReadSuccess \/ ReadExceptions \/ MakeBundle \/ Export \/ Delete

Next == Main \/ \E f \in Files : Task(f)

Spec == Init /\ [][Next]_vars

\* The main thread runs on, and so do the file it mends itself when there is no
\* pool.  Nothing is assumed of the tasks of a pool: diag-exporter is waited for
\* without a limit, so that a task may hang.
FairSpec ==
  /\ Spec
  /\ WF_vars(Main)
  /\ \A f \in Files : WF_vars(SingleThreaded /\ Task(f))

-----------------------------------------------------------------------------
TypeOK ==
  /\ threads \in ThreadOptions /\ reportPerSource \in BOOLEAN
  /\ main \in {"mend", "nullDirs", "sourceResults", "readSuccess", "readExceptions",
               "bundle", "export", "delete", "done", "crashed"}
  /\ at \in Files
  /\ task \in [Files -> {"queued", "createDir", "mend", "countSuccess", "countException",
                         "save", "publish", "ended", "lost"}]
  /\ outcome \in [Files -> {"none", "success", "unsuccessful", "fatal", "noDir"}]
  /\ frequency \in Nat
  /\ readFrequency \in [Files -> Nat \cup {-1}]
  /\ met \in [Files -> 0..MaxUnknown]
  /\ success \in Nat /\ exceptions \in Nat
  /\ saved \subseteq Files /\ dirs \subseteq Files /\ onDisk \subseteq Files
  /\ timedOut \in BOOLEAN
  /\ nullDirs \subseteq Files
  /\ report \in [success : Nat, exceptions : Nat]
  /\ bundle \subseteq Files
  /\ exported \subseteq bundle
  /\ Cardinality(Running) <= threads

\* Successes and exceptions never add up to more than the files, although they
\* are read one after the other while tasks may still count: no ratio of the
\* report, exceptions over unsuccessful files included, exceeds 1.
RatiosWithinOne == report.success + report.exceptions <= N

Counted == {f \in Files : outcome[f] = "success"}

\* A pool that terminated in time is reported exactly: the successes are those of
\* the files, and a file is a null mending directory or was counted and saved.
ReportExact ==
  (main \in {"bundle", "export", "delete", "done"} /\ ~timedOut) =>
    /\ report.success = Cardinality(Counted)
    /\ Files \ nullDirs = dirs
    /\ dirs \subseteq saved

\* Whatever is exported is complete: the copy of the source report finds a file,
\* so that it cannot end the export of the directories that follow.
ExportFindsReports == main = "export" => bundle \subseteq saved

\* A mending directory is not deleted under a task that still runs in it, even
\* when the main thread did not wait for the task.
RunningTaskKeepsDir ==
  \A f \in Files :
    task[f] \in {"mend", "countSuccess", "countException", "save", "publish"}
      => outcome[f] = "noDir" \/ f \in onDisk

\* The sum of a count over the files.
Total(m) ==
  LET upTo[n \in 0..N] == IF n = 0 THEN 0 ELSE upTo[n - 1] + m[n] IN upTo[N]

\* With one thread every unknown diagnostic is counted; with more, updates can be
\* lost, but a label that was met is in the map and is never over-counted, so
\* that uniqueUnknownDiagsCount is right once the tasks are over.
FrequencySound ==
  /\ frequency <= Total(met)
  /\ Total(met) > 0 => frequency > 0
  /\ SingleThreaded => frequency = Total(met)

\* The main thread comes to its end, even if tasks hang: it exports the results and
\* deletes the directories.  An exception that leaves the mending of a file ends the
\* run only without a pool, and the missing sourceResults end it in the mode that
\* stores results there.
MainReturns ==
  <>(main = "done" \/ (main = "crashed" /\ (SingleThreaded \/ ~reportPerSource)))
=============================================================================
