# A TLA+ model of CMender

CMender makes C sources compile that lack declarations: it runs clang on a copy of the source
through `diag-exporter`, takes errors from the report, declares what they say is missing in a
*mendfile* that the copy includes, and starts again. This directory models the loop and its
neighbours, checks them with TLC and proves the properties that matter most with TLAPS.

Paths below are relative to `src/cmender/src/main/java/pt/up/fe/specs/cmender/` (Java) and
`src/diag-exporter/src/` (C++).

## 1. The system

| component | state it keeps | operations | interacts with |
|---|---|---|---|
| Mending loop (`mending/MendingEngine.java`: `mend`, `mendingIteration`, `callDiagExporter`, `writeMendfile`; `analysis/DiagnosticAnalysis.java`, `handler/BasicSequentialMendingHandler.java`) | iteration, clock, current report, `handledDiagnostics`, the mendfile on disk, the result | one loop per source file | starts a `diag-exporter` process per iteration; calls the selection and the heuristics |
| Diagnostic selection (`mending/analysis/*`) | a list of indices that passes edit in place | first error; all missing headers; all missing symbols | called once per iteration |
| Mending table and heuristics (`mending/MendingTable.java`, `mending/handler/MendingHandler.java`, `lang/*`) | typedefs with locks, records, enums, variables, functions, subscripts, headers | one heuristic per kind of diagnostic; topological sort and printing | altered by the handler, printed to the mendfile |
| Generated names (`mending/MendingTypeNameGenerator.java`) | three static counters | next name | shared by the threads of all files |
| Execution (`MendingEngine.execute`, `Launcher.java`, `mending/ResultsExporter.java`, `data/CMenderDataManager.java`) | result arrays, two atomic counters, a concurrent map, mending directories | submit, await, report, export, delete | runs `mend` for each file, on the main thread or in a pool |
| `diag-exporter` (`main.cpp`, `DiagnosticExporterAction.*`, `SourceBatchThreadAllocator.cpp`) | file counter, vector of results | filter paths, allocate to threads, run clang, fill slots | its JSON is what the loop reads |
| JSON of diagnostics and types (`JsonDiagnosticConsumer.cpp`, `QualTypeJsonConverter.cpp`), read by `diag/DiagExporter.java` | counters per level, the array of diagnostics, two caches of types, the output file | count, convert, copy the counts, dump; read back | clang's callbacks on one side, the loop on the other; one output path for all iterations of a file |
| command line, logging, evaluation scripts | none that matters to control | | |

What is hard about it:

* *Progress.* Clang may answer a mend with any report. The loop's ways out are a report without
  errors, a first error that was handled before, an unknown one, and the time limit, which is only
  looked at at the head of the loop.
* *What is on disk.* The table, the mendfile, the export made with it, the size read from it and the
  result all describe "the mends", at different moments.
* *In-place edits.* The selection removes entries from the list it is walking over.
* *Long sequences of heuristics* over one table, each correct in isolation: dangling references,
  shared aliases, lost locks, cyclic records.
* *Threads.* A pool that the main thread stops waiting for after 60 minutes without stopping its
  tasks; counters read, directories exported and deleted while tasks run; static counters without a
  lock; in `diag-exporter`, a vector that all threads write into.
* *A report that crosses a process boundary.* Diagnostics, counts and types are put together at
  different callbacks, and the file they are written to still holds the previous iteration's report
  when a run fails. A report that looks clean and is not is a file that CMender calls mended.

`PROJECT.json` lists these hazards at their lines.

## 2. The modules

| module | models | composed of |
|---|---|---|
| `Mending` | what a mending promises, whatever drives it (abstract) | |
| `MendingLoop` | the mending of one file; `ImplementsMending` is its refinement of `Mending` | `SelectDiagnostics` is a constant operator, as `DiagnosticAnalysis` is an interface |
| `MendingLoop_proofs` | theorems about it | `MendingLoop` |
| `DiagnosticSelection` | the three strategies, as operators | |
| `MultipleErrorsSelection`, `MultipleErrorsSelection_proofs` | the passes of `BasicMultipleErrorsAnalysis`, one action per turn of their loops | `DiagnosticSelection` |
| `MendingTable`, `MendingTable_proofs` | the table, one action per heuristic, the writing of the mendfile | |
| `SymbolOrder`, `SymbolOrder_proofs` | `topologicalSort` and `visit` as the search they are | what `MendingTable` takes for granted of the order |
| `EnginePool`, `EnginePool_proofs` | `execute` and `Launcher.main` | a file's mending is its outcome and its accesses to the shared map |
| `NameGenerator`, `NameGenerator_proofs` | the static counters | |
| `DiagExporter`, `DiagExporter_proofs` | main, threads, slots and allocator of `diag-exporter` | |
| `ExporterReport`, `ExporterReport_proofs` | the way of a diagnostic from clang's callback to `DiagExporter.run` | one slot of `DiagExporter`, the outcomes of `CallDiagExporter` of `MendingLoop` |

`MCMendingLoop` composes `MendingLoop` with the strategies of `DiagnosticSelection`; the other MC
modules give the sets that a run needs. Definitions whose comment starts with "Mutant" are plausible
bugs of the definition that follows them; no specification uses them. They document what each
property would notice.

**MendingLoop.** `pc` names the next step of `mend`: `CreateMendingDir`, then per iteration `LoopHead`
(the time limit), `CallDiagExporter` (any report, a process that fails, an unreadable output, or an
output without sources, whose exception leaves `mend`), `Analyse` (`checkTermination`, the size of
the mendfile, the unknown diagnostic, the selection) or `AnalyseThrows` (the scan for the first error in
the source meets an error without a location first), `MendDiagnostic` once per selected diagnostic,
`WriteMendfile` (which may fail after it truncated the file) and `EndIteration`. `mended`, `mendfile`,
`compiled`, `sizeRead` and `mendfileSize` are sets of mends: what the table, the file, the last
export and the two recorded sizes stand for. Time is counted in units of the least an iteration
takes; `elapsed` stops at `MaxTotalTime + 1`, beyond which the code cannot tell values apart. The
progress estimate and the time measurements of the result are left out.

**Mending.** The table of mends grows only on errors, all of it is shown at once, and every showing
voids the compiler's verdict; success needs a clean verdict on what is shown, and giving up is not
allowed on one. `Verdict` and `Outcome` of `MendingLoop` map the loop's counters, reports and results to
it. The promise that is not obvious in the code is the last one: after a clean report there is no step
left that can throw, time out or find a cycle.

**DiagnosticSelection, MultipleErrorsSelection.** A diagnostic is its id, level and identifier; the
message repeats id and identifier. `LoopStep` is one turn of the two nested loops that all three passes
share, with the removal at `j < i` that moves the list under `i`. `MultipleErrorsSelection` takes one such
turn per action; `RemovalLoop` iterates them to the list that the pass leaves, which is what the loop
of `MCMendingLoop` calls.

**MendingTable.** Generated names are the numbers of their counters. A type is a base, a number of
pointers and the alias it is written with. What clang can report is external: a missing declaration
is reported while the table lacks it, and a type mismatch (`TypeArgs`, `Incompatible`,
`InvalidOperands`) is one between expressions over declared symbols, their addresses, what they point
to, and types of the source, in a mendfile that is up to date. `Throw` is an exception of a heuristic,
`failed` records what ended the file. `late` holds aliases that the mendfile uses before it declares
them: a typedef depends on its record and not on the alias it is written with, so that the order
follows hashes. `typeNameToCorrespondingSymbol`, the permitted types and function bodies are written and
never read, and are left out. Arrays and pointers are not told apart, as in the heuristics.

**SymbolOrder.** The recursion is a stack of activations, each with the dependents its iterator has left;
symbols and dependents come in any order, as `HashMap` and `HashSet` give them by identity hashes.
`Cyclic` is the reference definition: a nonempty set of symbols each of which has a dependent in the set.

**EnginePool.** The main thread's reads of `mendingDirDatas`, of the two counters and its export and
deletion are steps of their own; so are the steps of each task. `AwaitTimeout` drops the queued tasks
and lets the others run on. `unknownDiagsFrequency` is modelled for one label, read and put back in
two steps. The number of threads and the report mode are chosen in the initial state.

**NameGenerator.** `counter++` on an `int` field is a read and a write.

**DiagExporter.** Which paths are regular files, their sizes and `-t` are chosen in the initial state.
`Allocate` takes any largest file and any least loaded thread, since `std::sort` and the heap fix
no order among equals. `ClangTool::run` is external: it makes an action, which takes a number, for
each path in turn, and the action may find that it cannot open the file. A write beyond the last slot
is undefined: the process ends or the result is lost.

**ExporterReport.** One file, several runs of the exporter with one output path, as `callDiagExporter` has
it. `HandleDiagnostic` counts and converts, `EndSourceFile` copies the counts, `EndSourceFileAction` fills
the slot, `Dump` empties the file and writes it, `Run` reads it. A label is its category and position,
and `LabelIndex` is the index arithmetic of `getLabelId` over any layout of categories, category by category
as the macro expands. A QualType is its qualifiers, canonical type and spelling; `tracked` holds the two caches of `QualTypeJsonConverter`. Of the
other arguments only what makes Jackson refuse a report is kept. `SetupFails` leaves the placeholder of
`setTotalFiles` in the slot (or ends the process before it), a custom diagnostic aborts the process
(`getGroup`), text that is not UTF-8 makes `dump` throw.

## 3. What is checked

Passing runs:

| run | question | bounds |
|---|---|---|
| `MCMendingLoop_file` | All strategies: success means it compiles (`SuccessCompiles`), exports see all mends (`MendfileCurrent`), the size is that of the mendfile last compiled and, unless the time was over, of the one left (`SizeReported`), unknown diagnostics are counted once, and at least once if the mending goes on after them (`UnknownCountedOnce`), with the first-error strategy the iterations are bounded by the errors (`IterationsWithinErrors`) and nothing is mended twice (`NeverMendedTwice`), with any strategy the clock bounds them (`IterationsWithinTime`), the loop ends (`Termination`) and implements `Mending` (`ImplementsMending`). | 5 diagnostics (a header, a symbol, an unknown error, an error and a warning without a location), every report of at most 2, in every order; time 4 (a call takes 1 or 2), so that the error bound, the cycle and the timeout are all reached |
| `MCMultipleErrorsSelection_passes` | The passes against their comments: `FirstOccurrencesRemain`, `EachTagOnce`, `SelectionServes`. | every report of 1 to 4 of 8 diagnostics |
| `MCMendingTable_table` | `AliasIdentifiesSymbol`, `ReferencesResolve`, `NoRecordContainsItself`, `LocksKept` over all sequences of heuristics. | one name used as variable and function, a member, a record, an enum and a header of the source, 2 aliases, 2 tags, 2 subscripts, 2 pointers |
| `MCSymbolOrder_search` | The search against its reference: `OrderIsSound`, `RefusedOnlyIfCyclic`, `DepthWithinSymbols`, `SearchEnds`. | every graph of 4 symbols with at most 5 edges, loops included |
| `MCEnginePool_files` | `RatiosWithinOne`, `ReportExact`, `ExportFindsReports`, `RunningTaskKeepsDir`, `FrequencySound`, `MainReturns`. | 2 files; 1 or 2 threads; both report modes |
| `MCDiagExporter_threads` | `ResultsComplete`, `SlotWrittenOnce`, `LoadsWithinGreedyBound`, `Ends`. | 5 paths, any of them irregular, sizes 2 and 3, `-t` 0, 1 or 3 on 2 hardware threads |
| `MCExporterReport_runs` | What CMender reads is what clang said in this run: `CountsTell`, `CleanMeansCompiles`, `ResultOfThisRun`, `DiagsAsReported`, `TypesAsFresh`. | 2 runs of at most 3 out of 12 diagnostics, 3 categories with gaps, 7 types that share parts, ints of 4 bits |

Why the bounds are enough to be interesting: a report of two diagnostics has a first error behind a
warning, two errors, and repetition; a list of four is the shortest in which a removal before `i` is
followed by a further comparison and a second pass; two tags and a member reach self-containing and
mutually containing records; two files with two threads give every pair of task steps and every step
of the main thread beside a running task; with two threads, five files of sizes 3, 3,
2, 2, 2 are the smallest case in which the greedy allocation misses the optimum, and it meets its
bound exactly there (7 against 6). Four symbols and five edges hold two cycles that share a symbol and
two searches that meet in a finished part; two runs are what a stale output needs, and three diagnostics
give a type seen under one alias, under another, and inside a third; a label table of three categories is
the smallest in which an error of one in the offset adds up.

Runs that must find a violation, each a disagreement between the code and what it says of itself:

| run | what TLC finds |
|---|---|
| `MCMultipleErrorsSelection_typename` | An unknown type name that "should be kept" is removed, because `remove(j)` with `j < i` makes the outer loop compare an entry with itself. |
| `MCMendingTable_circular` | A struct with a pointer to itself is refused, though "circular dependencies are allowed when a struct includes a pointer to itself". |
| `MCMendingTable_lookup` | The side of a conversion that is to be changed is a generated tag, for which the typedef symbol that the code asserts does not exist. |
| `MCNameGenerator_pool` | Two threads: a lost increment repeats a name in one file, though "each of these names should only be used for one symbol". |
| `MCDiagExporter_single` | With one thread a path that was "skipped" takes number 0, and the regular file after it is handed number 1 where slot 0 is the only one: its result is written beyond the vector. A skipped path that comes last does no harm, and the property does not object to it. |

Further disagreements the models show without a run of their own: with
`createMendfileOnlyOnAlterations` the mendfile is never written (`MendingEngine.java:425`, `WriteMendfile`
of `MendingLoop`); without reports per source `sourceResults` is null where it is asserted not to be
(`MendingEngine.java:96`, `Save` of `EnginePool`); `nullMendingDirs` also lists files whose directory was
produced (`MendingEngine.java:192`); a typedef can be written before the alias it uses
(`MendingHandler.java:777`, `late` of `MendingTable`).

**Fairness.** `MendingLoop`: weak fairness of the one thread that runs `mend`, which includes that every
exporter process returns; a process that hangs is a task that hangs in `EnginePool`. `EnginePool`: weak
fairness of the main thread, whose await has a limit, and of the mending itself when it runs on the main
thread; none of the tasks of a pool. `MainReturns` takes a crash for an end only where the code has one: without a
pool, where the exception of a file ends the run, and without reports per source, where `sourceResults` is null. `DiagExporter`: weak fairness of the whole process, since clang
ends with every file. `SymbolOrder`: weak fairness of the one thread that searches. Deadlock is checked except where the system stops: the runs of `EnginePool`,
`DiagExporter`, `MultipleErrorsSelection` and `NameGenerator`, whose last state has no step.

## 4. What is proved

`MendingLoop_proofs`, for every set of diagnostics, every set of reports, every selection strategy,
every option and every time limit:

| theorem | property | argument |
|---|---|---|
| `TypeCorrect` | `TypeOK` | inductive as it stands; `SelectAssumption` (a strategy returns indices of the report) gives `Analyse` |
| `TimeBound` | `IterationsWithinTime` | `TimeInv`: the iterations begun are at most the time elapsed, and one more while the exporter of an iteration has not returned |
| `ErrorBound`, `MendedOnce` | `IterationsWithinErrors`, `NeverMendedTwice` | `HandledInv`: the iterations begun are exactly the errors handled, and one more from the start of an iteration until its error is remembered; an error that is selected is not among the handled ones, because the cycle test looked at that same error. This is where the strategy matters: `FirstErrorStrategy` |
| `SuccessIsCompiled`, `SizeIsCurrent` | `SuccessCompiles`, `SizeReported` | `OutcomeInv`: until an iteration writes, the export and the size read are those of the file on disk, so that the size recorded is always that of the last export, and an iteration that finishes does not write |
| `MendfileIsCurrent` | `MendfileCurrent` | `CurrentInv`: the table is ahead of the file only from the first mend of an iteration to its write |
| `UnknownIsCountedOnce` | `UnknownCountedOnce` | `UnknownInv`: no unknown diagnostic is in the table before the iteration that finishes, if the mending stops on them; `NoneMissing`: an iteration that ends has counted the whole list, if it does not |

Assumptions: `DiagsAssumption` (the errors are finitely many, which a finite source and clang's table
of diagnostics justify), `SelectAssumption` (which `StrategiesServe`, below, proves of the three
strategies, and `FirstErrorIs` that the first one is a `FirstErrorStrategy`), `InvocationAssumption` (an iteration takes at least one
unit of time). TLC evaluates them in the runs of `MCMendingLoop`.

`NameGenerator_proofs`: `OneThreadUnique`, that with one thread names are unique for any number of
names; `NamesInv` says that numbers in use are below their counter and that a number that was read is
still the counter's. `MCNameGenerator_pool` shows that the second half fails with two threads.

`MendingLoop_proofs` also proves the refinement, `LoopImplementsMending`: `OutcomeInv`, which
says what the last export and the file on disk hold, turns every action of the loop into a step of
`Mending` or a stutter.

`SymbolOrder_proofs`, for every finite set of symbols and every graph: `SearchTypeCorrect`, `OrderSound`
(`OrderIsSound`), `RefusedSound` (`RefusedOnlyIfCyclic`), its converse `CyclicRefused`, and `RecursionBounded`
(`DepthWithinSymbols`). `StackInv` says that the symbols being visited are exactly those on the stack, each
the dependent of the one below; `OrderInv` that the dependents an activation has passed are finished, and
that finished symbols stand in front of theirs. A symbol met on the stack then closes a cycle: the
activations from it upwards are the set that `Cyclic` asks for. The symbols on the stack are distinct, so
that there are no more of them than symbols. In an order, the last symbol of a set that `Cyclic` asks for
has no dependent behind it.

`MendingTable_proofs`, for any names, members and tags of the source and any bounds, after every sequence of
heuristics:

| theorem | property | argument |
|---|---|---|
| `TypeCorrect` | `TypeOK` | part of `TableInv` |
| `OneSymbolPerAlias` | `AliasIdentifiesSymbol` | `TypedefsInv`: the counter is ahead of every generated alias, so that a new one belongs to nobody; `SymbolsInv`: the alias of a symbol is a generated one that is declared |
| `Resolved` | `ReferencesResolve` | `TypedefsInv`, `SymbolsInv` and `SubscriptsInv`: what an entry refers to is in the table, and stays there. `GoodType` says what a heuristic may put behind an alias; the types that clang can name in a mismatch are of that form |
| `RecordsComplete` | `NoRecordContainsItself` | `GraphInv`: while the mendfile is up to date the graph of the symbols is acyclic, and containment by value is a path in it, through the typedef of the member. A step that changes the table makes the mendfile out of date |
| `LocksStay` | `LocksKept` | an action property: only the declaration of an alias anew drops a lock, and clang asks for that only if the alias came too late |

`MultipleErrorsSelection_proofs`, for reports of any length:

| theorem | property | argument |
|---|---|---|
| `FirstOccurrences` | `FirstOccurrencesRemain` | `ExactLoop`: nothing before `i` is like anything behind it (`Settled`), and every diagnostic that was removed is like an earlier one that is left |
| `TagsOnce` | `EachTagOnce` | `BatchLoop` and `TagLoop`: no pass takes out the last report of a tag, and `Settled` leaves only one: since being about the same tag is symmetric, what the inner loop removes is always behind `i`, although it starts at the front. The comparison of the pass before it is not symmetric; there `Settled` fails, and `MCMultipleErrorsSelection_typename` is the counterexample |
| `StepsCompute` | (the returned list is `SelectMultipleErrors(report)`) | `RunInv`: `RemovalLoop` takes the loop of a pass, at every turn, to the list it will return for the pass |
| `Serves` | `SelectionServes` | `StepsCompute` and `StrategiesServe` |
| `StrategiesServe` | (`SelectAssumption` of `MendingLoop`, and more) | every strategy returns a nonempty, increasing list of indices of any report with an error |
| `MissingHeadersOnce`, `BatchTagsOnce` | (about the strategies' results) | the first report of every missing header, and one report of every incomplete tag: `ExactEnds` and `TagEnds` at the loop that the pass returns at |

The last four are about the operators of `DiagnosticSelection`. `RemovalLoop` is a recursive function over
loops, so that a function with its equation must be shown to exist: `StepsLeft` counts the rounds of the
outer loop and the positions of the inner one that are left, every step lowers it (`StepFalls`), although a
step may shorten the list, and a loop whose steps lower a number returns (`ReturnsExists`). What every step keeps
then holds where it returns (`ReturnsKept`). That `getDiagIdxs` collects the right indices, for any report, is
`DiagIdxs`.

`EnginePool_proofs`, for every number of files and threads: `PoolTypeCorrect` (`TypeOK`), where the tasks that
run are no more than the threads; `DirKept` (`RunningTaskKeepsDir`) and `ReportsFound` (`ExportFindsReports`) from
`PublishInv` (what is published belongs to a task that is over and has saved its report; `bundle` is part
of that); `RatiosBounded` (`RatiosWithinOne`) from `CountInv` (the counters are cardinalities of disjoint sets
of files, and the report holds earlier values of counters that only grow); `ReportIsExact` (`ReportExact`)
from `FinishInv` (if main did not give up, no task can step once it goes on); `FrequencyIsSound`
(`FrequencySound`) from `FreqInv`: a value that a task has read is at most what was counted when it puts its
successor, and with one thread it is what was counted.

`DiagExporter_proofs`, for every number of sources and threads: `ExporterTypeCorrect` (`TypeOK`);
`SlotsWrittenOnce` (`SlotWrittenOnce`) from `SlotInv`: the numbers of running actions are distinct and below the
counter, and no filled slot has one of them; `ResultsAreComplete` (`ResultsComplete`) from `CompleteInv`:
no path is in two places, and the numbers that were handed out and the paths that have none yet add up to the
regular files, so that the counter never passes their number; `GreedyIsGood` (`LoadsWithinGreedyBound`), below; and `NumbersInRange`, that `SlotInRange` (the result of a file is written to a slot that exists) holds
when no path was skipped or the batches were allocated; `MCDiagExporter_single` shows the remaining case.

`GreedyIsGood` is the bound of 4/3 for sorting by size before allocating, for any sizes. Its invariant `LoadInv` speaks of
every distribution of the files over the threads and every bound C that its loads stay within: the allocated
files are no smaller than the pending ones (`Sorted`); if all of them are larger than C/3 the loads are within C
(`LargeFit`); and they are always within (4n-1)C/3n (`Bounded`). When a file f goes to a thread with the least load,
there are two cases. If f is at most C/3, the least load is at most the average, which leaves room for a
third of C (`Average`, `SmallWithinBound`). If f is larger, no thread of the distribution has three of the files so far;
let a file weigh 2 if it does not fit together with f within C, and 1 otherwise: a thread of the distribution
carries at most 2, f alone would add one more, and if f fitted nowhere every batch would weigh at least 2
(`WeightsAgree`, `Fits`). `OptimumIsReached` puts the least greatest load for C. Loads are integers: the wrapping of
`unsigned` sums beyond 4 GiB is not modelled.

`ExporterReport_proofs`, for any diagnostics, types, categories and any number of runs:

| theorem | property | argument |
|---|---|---|
| `ReadsOwnRun`, `CleanIsCompiled`, `CountersTell` | `ResultOfThisRun`, `CleanMeansCompiles`, `CountsTell` | `ReportInv`: the counters cover what clang has handed over (`CountsCover`) and tell what was converted (`Tells`), the slot is the placeholder or holds them, and an output of this run is the slot |
| `DiagsReported` | `DiagsAsReported` | `DiagsInv`: the object, then the slot, has the diagnostics one for one (`AllAsReported`). `LabelOfId` is the arithmetic: up to the category of an id the sum of what is added and taken away is the number of labels before it, and no later category is passed because they do not overlap |
| `TypesFresh` | `TypesAsFresh` | `DiagsInv`: what is tracked is what a new converter would make of it (`TracksFresh`). A conversion exists and is unique because types are built from earlier ones (`AllConvertible`, `VisitsUnique`), so that one that starts from such a cache is the same (`VisitFresh`) |

The assumptions of these modules say what their constants are: graphs over finitely many symbols
(`SymbolsAssumption`), at least one file and thread (`PoolAssumption`), reports that are sequences
(`ReportsAssumption`), categories that do not overlap (`LayoutAssumption`), types that are built from other
types without a circle (`TypesAssumption`; clang makes a type after those it consists of, and the exporter
does not look into records), and diagnostics with ids that are custom or those of a label
(`DiagnosticsAssumption`). TLC evaluates them in the runs.

Recursive functions (`Labels`, `LabelIndex`, `Visit`, `GetDescriptionInfo`, `GetDiagIdxs`, `RemovalLoop`, `Total`, `SumTo`) are reasoned about
from their equations. That a function with these equations exists is a lemma of its own in each case, by
induction in the form "a set of numbers with 0 and all successors has them all" (`UpToInduction`), or from
the assumption that every set of types has one whose parts are outside it.

Only model-checked: the liveness properties `Termination`, `SearchEnds`, `MainReturns` and `Ends`, which need
fairness.

## 5. What is not modelled

* What the exporter prints of tokens, identifiers, attributes, qualifiers and source ranges: text that no
  decision of the loop depends on.
* Command line, logging, hashing, time and size bundles: no influence on control beyond the options
  that are constants or initial choices of the modules.
* `evaluation/` and `repos/`: offline scripts around the tool. The C files under
  `repos/repos_output/` are the dataset, sources of other projects that CMender is run on; they are input and
  no part of the program, although they are most of the repository's C.
* Clang: any report after any mendfile in `MendingLoop`, a set of plausible complaints in `MendingTable`.
* The file system outside the mending directories (a header whose path climbs out of its directory).

What can go wrong and is neither promised nor prevented by the code, so that no property is stated:

* the placeholder of a file that clang could not open has no errors, and CMender takes it for a file that compiles
  (`DiagnosticExporterAction.cpp:173`; `CleanMeansCompiles` is about results with a file name, and in `MendingLoop` such
  a report is one without errors); a value that the records have no place for makes a report unreadable and ends the
  file (`DeclContext.java:10`); `sourceResults` is null in the mode that needs it (`MendingEngine.java:96`);
* the exception of a task is kept in a `Future` that nobody reads and is in no count of the report
  (`MendingEngine.java:388`, `:162`, `Escapes` of `EnginePool`); the main thread still ends and exports what is complete;
* an unknown diagnostic is counted again in each later iteration if the mending continues on it
  (`MendingEngine.java:325`); a table with very many dependent symbols overflows the stack, since the nesting of `visit`
  is bounded by nothing but their number (`MendingTable.java:356`);
* a typedef whose base is an enum of the table has no node in the graph and ends the file
  (`MendingTable.java:266`, the failure "enum" of `MendingTable`); a null entry of `mendingDirDatas` also stands
  for a task that was cut off (`MendingEngine.java:192`); the first `IOException` ends the export of the
  directories that are left, which are then deleted (`ResultsExporter.java:53`, `Export` of `EnginePool`);
* `maxTotalIterations` is never compared (`MendingEngine.java:263`); no thread and no valid file end the program
  before it begins (`MendingEngine.java:143`, `:88`); loads of the allocator wrap at 32 bits (`main.cpp:130`);
* a severity that is misspelt in the mapping is taken for "ignored" (`DiagnosticExporterAction.cpp:60`,
  `BeginInvocation` of `ExporterReport`); two errors in one macro expansion have equal locations
  (`DiagnosticLocation.java:37`); the operator of a nested macro is read from the outermost spelling
  (`MendingHandler.java:298`), while the token is the last one (`DiagsAsReported`).

## 6. Plan

Done: the inventory; the loop, its abstract specification and its proofs; the selection; the table and the
order of its symbols; the pool; the name generator; the exporter's threads and its reports; of every safety
property of a passing run a proof; that the strategies of `DiagnosticSelection` return what `MendingLoop` assumes of
them.

Left: the outcome of a file in `EnginePool` as what `MendingLoop` returns, composed for two files.
