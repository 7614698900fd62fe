----------------------------- MODULE MendingLoop -----------------------------
(***************************************************************************)
(* The mending of ONE source file: MendingEngine.mend, the loop that calls *)
(* diag-exporter on the copy of the source, analyses what it reports,      *)
(* applies heuristics to the mending table and writes the table to the     *)
(* mendfile that the copy includes, until no error is left, a diagnostic   *)
(* comes back, an unknown one is met, the time is over or a step fails.    *)
(*                                                                         *)
(* The strategies that choose the diagnostics of an iteration are the      *)
(* parameter SelectDiagnostics, as they are in the code: mend calls the    *)
(* interface DiagnosticAnalysis, whose implementations are in module       *)
(* DiagnosticSelection and of which the invocation names one.  What clang  *)
(* reports is not constrained at all (any member of Reports, after any     *)
(* mendfile), and whether a heuristic alters the table, does nothing or    *)
(* throws is chosen nondeterministically: module MendingTable looks inside *)
(* the heuristics.  What the loop promises, without its strategies, limits *)
(* and reports, is the specification Mending, which it implements.         *)
(***************************************************************************)
EXTENDS Integers, Sequences, FiniteSets

CONSTANTS
  Diags,          \* diagnostics, equal as Diagnostic.equals says: id, message, location
  Errors,         \* those whose level is ERROR or FATAL
  Unknown,        \* those whose id DiagnosticID does not list
  InSource,       \* those located in the copy of the source itself
  Unlocated,      \* those without a location, for which the exporter writes nulls
  Reports,        \* the sequences of diagnostics the exporter may report
  Analyses,       \* the analysis types of AnalysisFactory
  SelectDiagnostics(_, _),    \* analysis, report -> indices, taken in increasing order
  Invocations,    \* the options of CMenderInvocation that the loop looks at
  MaxTotalTime,   \* in time units, one unit being the least an iteration takes
  MaxCallTime     \* the most units one iteration takes

HasErrorsOrFatals(r) == \E i \in DOMAIN r : r[i] \in Errors

\* The indices of the first error or fatal: at most one.
FirstErrorOrFatal(r) ==
  {i \in DOMAIN r : r[i] \in Errors /\ \A j \in DOMAIN r : r[j] \in Errors => i <= j}

ASSUME DiagsAssumption ==
  /\ Errors \subseteq Diags
  /\ Unknown \subseteq Diags
  /\ InSource \subseteq Diags \ Unlocated
  /\ Reports \subseteq Seq(Diags)
  /\ IsFiniteSet(Errors)

\* What mendingIteration relies on when it looks the selected indices up.
ASSUME SelectAssumption ==
  \A a \in Analyses, r \in Reports :
    HasErrorsOrFatals(r) => SelectDiagnostics(a, r) \subseteq DOMAIN r

ASSUME InvocationAssumption ==
  /\ Invocations \subseteq [analysis : Analyses,
                           continueOnUnknownDiagnostic : BOOLEAN,
                           createMendfileOnlyOnAlterations : BOOLEAN]
  /\ MaxTotalTime \in Nat
  /\ MaxCallTime \in Nat \ {0}

VARIABLES
  invocation,   \* menderInvocation
  pc,           \* the next step of mend
  iteration,    \* currentIteration
  elapsed,      \* System.nanoTime() - timeStart, in time units
  report,       \* the diagnostics of the current iteration
  termination,  \* the MendingTerminationStatus of the current iteration
  selected,     \* indices of report that the handler still has to mend
  handled,      \* mendingTable.handledDiagnostics, as a set (only searched)
  mended,       \* diagnostics whose heuristic has altered the mending table
  unknownCount, \* mendingTable.unknownDiags, as a bag
  mendfile,     \* the mends that the mendfile on disk declares
  compiled,     \* the mends of the mendfile the last export was run on
  sizeRead,     \* mendfileSize of the current iteration (the content stands for its size)
  mendfileSize, \* mendfileSize of the last entry of mendingIterations
  frequency,    \* unknownDiagsFrequency
  result        \* the SourceResult

vars == <<invocation, pc, iteration, elapsed, report, termination, selected, handled, mended,
          unknownCount, mendfile, compiled, sizeRead, mendfileSize, frequency, result>>

TerminationType ==
  {"NO_TERMINATION", "NO_MORE_ERRORS_OR_FATALS", "DETECTED_CYCLE", "UNKNOWN_DIAGNOSTIC"}

FatalType ==
  {"MENDING_DIR_CREATION", "DIAG_EXPORTER", "DIAG_EXPORTER_RESULT_DESERIALIZATION", "MENDING"}

SourceResult == [success : BOOLEAN, timeout : BOOLEAN, fatal : FatalType \cup {"none"}]

Fatal(type) == [success |-> FALSE, timeout |-> FALSE, fatal |-> type]

Init ==
  /\ invocation \in Invocations
  /\ pc = "createDir"
  /\ iteration = 0
  /\ elapsed = 0
  /\ report = <<>>
  /\ termination = "NO_TERMINATION"
  /\ selected = {}
  /\ handled = {}
  /\ mended = {}
  /\ unknownCount = [d \in Unknown |-> 0]
  /\ mendfile = {}
  /\ compiled = {}
  /\ sizeRead = {}
  /\ mendfileSize = {}
  /\ frequency = [d \in Unknown |-> 0]
  /\ result = [success |-> FALSE, timeout |-> FALSE, fatal |-> "none"]

-----------------------------------------------------------------------------
\* createMendingDir: copies the source and creates an empty mendfile, or returns null.
CreateMendingDir ==
  /\ pc = "createDir"
  /\ \/ pc' = "head" /\ UNCHANGED result
     \/ pc' = "done" /\ result' = Fatal("MENDING_DIR_CREATION")
  /\ UNCHANGED <<invocation, iteration, elapsed, report, termination, selected, handled, mended,
                 unknownCount, mendfile, compiled, sizeRead, mendfileSize, frequency>>

TimeIsOverLate == elapsed > MaxTotalTime + 1

TimeIsOver == elapsed > MaxTotalTime

\* Mutant: the time limit is noticed, but the loop is not left.
LoopHeadWithoutBreak ==
  /\ pc = "head"
  /\ \/ TimeIsOver /\ result' = [result EXCEPT !.timeout = TRUE] /\ UNCHANGED <<pc, iteration>>
     \/ ~TimeIsOver /\ iteration' = iteration + 1 /\ pc' = "export" /\ UNCHANGED result
  /\ UNCHANGED <<invocation, elapsed, report, termination, selected, handled, mended,
                 unknownCount, mendfile, compiled, sizeRead, mendfileSize, frequency>>

\* The head of the while loop, reached only when neither finished nor
\* detectedLoop: the only place where the elapsed time is looked at.
LoopHead ==
  /\ pc = "head"
  /\ \/ /\ TimeIsOver
        /\ result' = [result EXCEPT !.timeout = TRUE]
        /\ pc' = "done"
        /\ UNCHANGED iteration
     \/ /\ ~TimeIsOver
        /\ iteration' = iteration + 1
        /\ pc' = "export"
        /\ UNCHANGED result
  /\ UNCHANGED <<invocation, elapsed, report, termination, selected, handled, mended,
                 unknownCount, mendfile, compiled, sizeRead, mendfileSize, frequency>>

\* callDiagExporter: a process runs on the copy of the source with the mendfile
\* as it is on disk.  A process that fails and an output that cannot be read are
\* fatal.  An output without an entry for the source makes getFirst throw
\* outside the try block of mendingIteration, and the exception leaves mend.
CallDiagExporter ==
  /\ pc = "export"
  /\ compiled' = mendfile
  /\ \E t \in 1..MaxCallTime :
       elapsed' = IF elapsed + t > MaxTotalTime THEN MaxTotalTime + 1 ELSE elapsed + t
  /\ \/ \E r \in Reports : report' = r /\ pc' = "analyse" /\ UNCHANGED result
     \/ /\ \E f \in {"DIAG_EXPORTER", "DIAG_EXPORTER_RESULT_DESERIALIZATION"} :
             result' = Fatal(f)
        /\ pc' = "done"
        /\ UNCHANGED report
     \/ pc' = "escaped" /\ UNCHANGED <<report, result>>
  /\ UNCHANGED <<invocation, iteration, termination, selected, handled, mended, unknownCount,
                 mendfile, sizeRead, mendfileSize, frequency>>

\* Mutant: the handled diagnostics are not consulted.
CheckTerminationWithoutCycles(r) ==
  IF ~HasErrorsOrFatals(r) THEN "NO_MORE_ERRORS_OR_FATALS"
  ELSE IF \E i \in FirstErrorOrFatal(r) : r[i] \in Unknown THEN "UNKNOWN_DIAGNOSTIC"
  ELSE "NO_TERMINATION"

\* DiagnosticAnalysis.checkTermination.
CheckTermination(r) ==
  IF ~HasErrorsOrFatals(r) THEN "NO_MORE_ERRORS_OR_FATALS"
  ELSE IF \E i \in FirstErrorOrFatal(r) : r[i] \in handled THEN "DETECTED_CYCLE"
  ELSE IF \E i \in FirstErrorOrFatal(r) : r[i] \in Unknown THEN "UNKNOWN_DIAGNOSTIC"
  ELSE "NO_TERMINATION"

\* Mutant: the scan is not limited to the errors.
LocationScanOfAll(r) ==
  \E i \in DOMAIN r : /\ r[i] \in Unlocated
                      /\ \A j \in DOMAIN r : j < i => r[j] \notin InSource

\* DiagExporterSourceResult.getFirstErrorOrFatalInSource, which checkTermination
\* calls for the progress in the file: it looks at the errors in order until one
\* is in the source, and dereferences the location of each.
LocationScanThrows(r) ==
  \E i \in DOMAIN r : /\ r[i] \in Errors \cap Unlocated
                      /\ \A j \in DOMAIN r : j < i => r[j] \notin Errors \cap InSource

\* Mutant: an unknown diagnostic never ends the loop.
FinishedOnCycleOnly(t) == t = "DETECTED_CYCLE"

FinishedPrematurely(t) ==
  \/ t = "UNKNOWN_DIAGNOSTIC" /\ ~invocation.continueOnUnknownDiagnostic
  \/ t = "DETECTED_CYCLE"

Success(t) == t = "NO_MORE_ERRORS_OR_FATALS"

Finished(t) == Success(t) \/ FinishedPrematurely(t)

\* The first half of mendingIteration's try block: the termination status, the
\* size of the mendfile before this iteration writes it, the unknown diagnostic
\* (the first error) and the diagnostics to mend.  An empty selection goes
\* straight to the writing of the mendfile.  An error without a location ends
\* the file with the fatal MENDING, before anything is decided.
Analyse ==
  LET t == CheckTermination(report) IN
  /\ pc = "analyse"
  /\ ~LocationScanThrows(report)
  /\ termination' = t
  /\ unknownCount' = [d \in Unknown |->
       unknownCount[d] + (IF t = "UNKNOWN_DIAGNOSTIC"
                             /\ \E i \in FirstErrorOrFatal(report) : report[i] = d
                          THEN 1 ELSE 0)]
  /\ sizeRead' = mendfile
  /\ selected' = IF Finished(t) THEN {}
                ELSE SelectDiagnostics(invocation.analysis, report)
  /\ pc' = IF Finished(t) THEN "endIteration" ELSE "mend"
  /\ UNCHANGED <<invocation, iteration, elapsed, report, handled, mended, mendfile, compiled,
                 mendfileSize, frequency, result>>

AnalyseThrows ==
  /\ pc = "analyse"
  /\ LocationScanThrows(report)
  /\ result' = Fatal("MENDING")
  /\ pc' = "done"
  /\ UNCHANGED <<invocation, iteration, elapsed, report, termination, selected, handled, mended,
                 unknownCount, mendfile, compiled, sizeRead, mendfileSize, frequency>>

\* Mutant: the handler mends without remembering the diagnostic.
MendDiagnosticUnrecorded ==
  /\ pc = "mend"
  /\ \E i \in selected :
       /\ \A j \in selected : i <= j
       /\ selected' = selected \ {i}
       /\ mended' = mended \cup ({report[i]} \ Unknown)
  /\ UNCHANGED <<invocation, pc, iteration, elapsed, report, termination, handled, unknownCount, mendfile,
                 compiled, sizeRead, mendfileSize, frequency, result>>

\* BasicSequentialMendingHandler.mend, one diagnostic: it is remembered as
\* handled first; an unknown one has no heuristic; a heuristic alters the table,
\* finds nothing to do, or throws, which ends the file with the fatal MENDING.
MendDiagnostic ==
  /\ pc = "mend"
  /\ \E i \in selected :
       /\ \A j \in selected : i <= j
       /\ handled' = handled \cup {report[i]}
       /\ \/ /\ selected' = selected \ {i}
             /\ \/ report[i] \notin Unknown /\ mended' = mended \cup {report[i]}
                \/ UNCHANGED mended
             /\ UNCHANGED <<pc, result>>
          \/ /\ report[i] \notin Unknown
             /\ result' = Fatal("MENDING")
             /\ pc' = "done"
             /\ UNCHANGED <<selected, mended>>
  /\ UNCHANGED <<invocation, iteration, elapsed, report, termination, unknownCount, mendfile,
                 compiled, sizeRead, mendfileSize, frequency>>

\* Mutant: the option that asks for fewer writes is tested the wrong way round.
WriteMendfileInverted ==
  /\ pc = "mend"
  /\ selected = {}
  /\ mendfile' = IF invocation.createMendfileOnlyOnAlterations THEN mended ELSE mendfile
  /\ pc' = "endIteration"
  /\ UNCHANGED <<invocation, iteration, elapsed, report, termination, selected, handled, mended,
                 unknownCount, compiled, sizeRead, mendfileSize, frequency, result>>

\* writeMendfile: the FileWriter truncates the mendfile before the table is
\* printed, so that a failure (no order of the declarations, an I/O error, a
\* copy that fails) leaves some part of it.  The catch block of mendingIteration
\* turns the MENDFILE_WRITER exception into MENDING.
WriteMendfile ==
  /\ pc = "mend"
  /\ selected = {}
  /\ \/ /\ invocation.createMendfileOnlyOnAlterations
        /\ pc' = "endIteration"
        /\ UNCHANGED <<mendfile, result>>
     \/ /\ ~invocation.createMendfileOnlyOnAlterations
        /\ mendfile' = mended
        /\ pc' = "endIteration"
        /\ UNCHANGED result
     \/ /\ ~invocation.createMendfileOnlyOnAlterations
        /\ \E part \in SUBSET mended : mendfile' = part
        /\ result' = Fatal("MENDING")
        /\ pc' = "done"
  /\ UNCHANGED <<invocation, iteration, elapsed, report, termination, selected, handled, mended,
                 unknownCount, compiled, sizeRead, mendfileSize, frequency>>

\* Mutant: every way of finishing counts as success.
EndIterationAlwaysSuccessful ==
  /\ pc = "endIteration"
  /\ mendfileSize' = sizeRead
  /\ frequency' = [d \in Unknown |-> frequency[d] + unknownCount[d]]
  /\ result' = [result EXCEPT !.success = Finished(termination)]
  /\ pc' = IF Finished(termination) THEN "done" ELSE "head"
  /\ UNCHANGED <<invocation, iteration, elapsed, report, termination, selected, handled, mended,
                 unknownCount, mendfile, compiled, sizeRead>>

\* Mutant: the iteration that ends the loop is not added to mendingIterations.
EndIterationDropsLast ==
  /\ pc = "endIteration"
  /\ mendfileSize' = IF Finished(termination) THEN mendfileSize ELSE sizeRead
  /\ frequency' = [d \in Unknown |-> frequency[d] + unknownCount[d]]
  /\ result' = [result EXCEPT !.success = Success(termination)]
  /\ pc' = IF Finished(termination) THEN "done" ELSE "head"
  /\ UNCHANGED <<invocation, iteration, elapsed, report, termination, selected, handled, mended,
                 unknownCount, mendfile, compiled, sizeRead>>

\* The rest of the while body.  Every unknown diagnostic of the table is counted,
\* not only this iteration's.
EndIteration ==
  /\ pc = "endIteration"
  /\ mendfileSize' = sizeRead
  /\ frequency' = [d \in Unknown |-> frequency[d] + unknownCount[d]]
  /\ result' = [result EXCEPT !.success = Success(termination)]
  /\ pc' = IF Finished(termination) THEN "done" ELSE "head"
  /\ UNCHANGED <<invocation, iteration, elapsed, report, termination, selected, handled, mended,
                 unknownCount, mendfile, compiled, sizeRead>>

\* The result is handed to execute, or the exception is.
Return == pc \in {"done", "escaped"} /\ UNCHANGED vars

Next == \/ CreateMendingDir
        \/ LoopHead
        \/ CallDiagExporter
        \/ Analyse
        \/ AnalyseThrows
        \/ MendDiagnostic
        \/ WriteMendfile
        \/ EndIteration
        \/ Return

Spec == Init /\ [][Next]_vars

\* One thread runs mend to its end, and every exporter process returns.
FairSpec == Spec /\ WF_vars(Next)

-----------------------------------------------------------------------------
TypeOK ==
  /\ invocation \in Invocations
  /\ pc \in {"createDir", "head", "export", "analyse", "mend", "endIteration",
             "done", "escaped"}
  /\ iteration \in Nat
  /\ elapsed \in 0..(MaxTotalTime + 1)
  /\ report \in Reports \cup {<<>>}
  /\ termination \in TerminationType
  /\ selected \subseteq DOMAIN report
  /\ pc \notin {"mend", "done"} => selected = {}
  /\ handled \subseteq Diags
  /\ mended \subseteq handled \ Unknown
  /\ unknownCount \in [Unknown -> Nat]
  /\ mendfile \subseteq mended
  /\ compiled \subseteq mended
  /\ sizeRead \subseteq mended
  /\ mendfileSize \subseteq mended
  /\ frequency \in [Unknown -> Nat]
  /\ result \in SourceResult

\* A source reported as successfully mended (SourceResult.success) compiles: the
\* last report has no error, it was made with the mendfile that is on disk now,
\* and the result carries neither a timeout nor an exception.
SuccessCompiles ==
  result.success => /\ pc = "done"
                    /\ ~HasErrorsOrFatals(report)
                    /\ compiled = mendfile
                    /\ ~result.timeout
                    /\ result.fatal = "none"

\* The exporter always runs on a mendfile that declares every mend of the table:
\* what a heuristic did is visible in the next iteration's diagnostics, and a
\* file that does not end with an exception is left with all of its mends.  Not
\* so with createMendfileOnlyOnAlterations, under which no mendfile is written.
MendfileCurrent ==
  (/\ ~invocation.createMendfileOnlyOnAlterations
   /\ pc \in {"head", "export", "analyse"} \/ (pc = "done" /\ result.fatal = "none"))
    => mendfile = mended

\* The mendfile size of the SourceResult is that of the mendfile clang was last run
\* on, never of one that was not compiled: an iteration reads the size before it
\* writes.  Unless the file timed out, it is also that of the mendfile that is left.
SizeReported ==
  (pc = "done" /\ result.fatal = "none") =>
    /\ mendfileSize = compiled
    /\ result.timeout \/ mendfileSize = mendfile

\* Every unknown diagnostic met is counted once in unknownDiagsFrequency when the
\* loop ends at the first one.  When it goes on, every later iteration counts the
\* diagnostic again, but none is left out unless the file ends with an exception.
UnknownCountedOnce ==
  pc = "done" =>
    IF invocation.continueOnUnknownDiagnostic
    THEN result.fatal = "none" => \A d \in Unknown : frequency[d] >= unknownCount[d]
    ELSE frequency = unknownCount

\* Whatever the strategy selects, the time limit bounds the iterations.
IterationsWithinTime == iteration <= MaxTotalTime + 1

\* BasicFirstErrorAnalysis: the first error, and nothing else, is selected.
FirstErrorStrategy ==
  \A r \in Reports :
    HasErrorsOrFatals(r) => SelectDiagnostics(invocation.analysis, r) = FirstErrorOrFatal(r)

\* With that strategy an error is handed to the handler at most once, so that a
\* file takes at most one iteration per located error clang can report, and one more,
\* whatever clang answers and however long it takes.
IterationsWithinErrors ==
  iteration <= Cardinality(Errors \ Unlocated) + 1 \/ ~FirstErrorStrategy

\* With that strategy the handler never mends a diagnostic for a second time.
NeverMendedTwice ==
  [][(pc = "mend" /\ selected # {} /\ selected' # selected)
        => handled' # handled \/ ~FirstErrorStrategy]_vars

\* mend returns, or an exception leaves it, even if clang never runs out of errors.
Termination == <>(pc \in {"done", "escaped"})

-----------------------------------------------------------------------------
\* What is known of the copy of the source with the mendfile it includes: from
\* the report on, until the mendfile is written or the iteration is over.
Verdict ==
  IF \/ pc = "analyse" /\ HasErrorsOrFatals(report)
     \/ pc = "mend"
     \/ pc = "endIteration" /\ FinishedPrematurely(termination)
  THEN "errors"
  ELSE IF \/ pc = "analyse"
          \/ pc = "endIteration" /\ Success(termination)
          \/ pc = "done" /\ result.success
  THEN "clean"
  ELSE "unknown"

Outcome ==
  IF pc = "done" /\ result.success THEN "mended"
  ELSE IF pc \in {"done", "escaped"} THEN "failed"
  ELSE "running"

M == INSTANCE Mending WITH Mends <- Diags, table <- mended, shown <- mendfile,
                           verdict <- Verdict, outcome <- Outcome

\* The loop does what mending promises: no clean export is followed by another
\* outcome than success, whatever else the report holds, and nothing but a clean
\* export of the mendfile on disk is called a success.
ImplementsMending == M!Spec
=============================================================================
