------------------------- MODULE MendingLoop_proofs -------------------------
(***************************************************************************)
(* Proofs about MendingLoop, for every set of diagnostics and of reports,  *)
(* every selection strategy and every invocation.                          *)
(***************************************************************************)
EXTENDS MendingLoop, FiniteSetTheorems, WellFoundedInduction, TLAPS

\* A set of naturals that is not empty has a least element.
LEMMA LeastIndex ==
  ASSUME NEW T \in SUBSET Nat, T # {}
  PROVE  \E i \in T : \A j \in T : i <= j
<1> DEFINE R == OpToRel(<, Nat)
<1>1. IsWellFoundedOn(R, Nat)
  BY NatLessThanWellFounded
<1>2. \A x, y \in Nat : y < x => <<y, x>> \in R
  BY DEF OpToRel
<1> HIDE DEF R
<1>3. PICK x \in T : \A y \in T : ~(<<y, x>> \in R)
  BY <1>1, WFMin
<1>4. ASSUME NEW y \in T
      PROVE  x <= y
  <2>1. x \in Nat /\ y \in Nat
    OBVIOUS
  <2>2. ~(y < x)
    BY <1>2, <1>3, <2>1
  <2>3. QED
    BY <2>1, <2>2
<1>5. QED
  BY <1>4

\* A report with errors has a first one, and only one.
LEMMA FirstErrorExists ==
  ASSUME NEW r \in Reports, HasErrorsOrFatals(r)
  PROVE  \E i \in DOMAIN r : FirstErrorOrFatal(r) = {i} /\ r[i] \in Errors
<1> DEFINE E == {i \in DOMAIN r : r[i] \in Errors}
<1>1. DOMAIN r \subseteq Nat
  BY DiagsAssumption
<1>2. E # {} /\ E \in SUBSET Nat
  BY <1>1 DEF HasErrorsOrFatals
<1>3. PICK i \in E : \A j \in E : i <= j
  BY <1>2, LeastIndex
<1>4. ASSUME NEW k \in FirstErrorOrFatal(r)
      PROVE  k = i
  BY <1>1, <1>3 DEF FirstErrorOrFatal
<1>5. i \in FirstErrorOrFatal(r)
  BY <1>3 DEF FirstErrorOrFatal
<1>6. QED
  BY <1>3, <1>4, <1>5

-----------------------------------------------------------------------------
\* The results that the steps build are SourceResults.
LEMMA ResultTypes ==
  /\ \A f \in FatalType : Fatal(f) \in SourceResult
  /\ \A x \in SourceResult, b \in BOOLEAN :
       /\ [x EXCEPT !.timeout = b] \in SourceResult
       /\ [x EXCEPT !.success = b] \in SourceResult
  /\ \A t : Success(t) \in BOOLEAN
<1>1. ASSUME NEW f \in FatalType
      PROVE  Fatal(f) \in SourceResult
  BY DEF Fatal, SourceResult
<1>2. ASSUME NEW x \in SourceResult, NEW b \in BOOLEAN
      PROVE  /\ [x EXCEPT !.timeout = b] \in SourceResult
             /\ [x EXCEPT !.success = b] \in SourceResult
  BY DEF SourceResult
<1>3. \A t : Success(t) \in BOOLEAN
  BY DEF Success
<1>4. QED
  BY <1>1, <1>2, <1>3

\* Type correctness: every variable of mend keeps its type; in particular the
\* indices handed to the handler are indices of the current report, and the
\* mendfile never declares anything the table does not hold.
THEOREM TypeCorrect == Spec => []TypeOK
<1>1. Init => TypeOK
  BY InvocationAssumption DEF Init, TypeOK, TerminationType, SourceResult, FatalType
<1>2. TypeOK /\ [Next]_vars => TypeOK'
  <2> SUFFICES ASSUME TypeOK, [Next]_vars PROVE TypeOK'
    OBVIOUS
  <2> USE DEF TypeOK
  <2>1. CASE CreateMendingDir
    <3>1. result' \in SourceResult
      BY <2>1, ResultTypes DEF CreateMendingDir, FatalType
    <3>2. QED
      BY <2>1, <3>1 DEF CreateMendingDir
  <2>2. CASE LoopHead
    <3>1. result' \in SourceResult
      BY <2>2, ResultTypes DEF LoopHead
    <3>2. QED
      BY <2>2, <3>1 DEF LoopHead
  <2>3. CASE CallDiagExporter
    <3>1. elapsed' \in 0..(MaxTotalTime + 1)
      BY <2>3, InvocationAssumption DEF CallDiagExporter
    <3>2. selected' \subseteq DOMAIN report' /\ report' \in Reports \cup {<<>>}
      BY <2>3 DEF CallDiagExporter
    <3>3. result' \in SourceResult
      BY <2>3, ResultTypes DEF CallDiagExporter, FatalType
    <3>4. pc' \in {"analyse", "done", "escaped"}
      BY <2>3 DEF CallDiagExporter
    <3>5. QED
      BY <2>3, <3>1, <3>2, <3>3, <3>4 DEF CallDiagExporter
  <2>4. CASE Analyse
    <3>1. termination' \in TerminationType
      BY <2>4 DEF Analyse, CheckTermination, TerminationType
    <3>2. unknownCount' \in [Unknown -> Nat]
      BY <2>4 DEF Analyse
    <3>3. selected' \subseteq DOMAIN report
      <4>1. CASE Finished(CheckTermination(report))
        BY <2>4, <4>1 DEF Analyse
      <4>2. CASE ~Finished(CheckTermination(report))
        <5>1. HasErrorsOrFatals(report)
          BY <4>2 DEF Finished, Success, CheckTermination
        <5>2. report \in Reports
          BY <5>1 DEF HasErrorsOrFatals
        <5>3. QED
          BY <2>4, <4>2, <5>1, <5>2, SelectAssumption, InvocationAssumption DEF Analyse
      <4>3. QED
        BY <4>1, <4>2
    <3>4. QED
      BY <2>4, <3>1, <3>2, <3>3 DEF Analyse
  <2>4a. CASE AnalyseThrows
    <3>1. result' \in SourceResult
      BY <2>4a, ResultTypes DEF AnalyseThrows, FatalType
    <3>2. QED
      BY <2>4a, <3>1 DEF AnalyseThrows
  <2>5. CASE MendDiagnostic
    <3>1. PICK i \in selected : /\ handled' = handled \cup {report[i]}
                                /\ selected' \subseteq selected
                                /\ \/ mended' = mended \cup {report[i]} /\ report[i] \notin Unknown
                                   \/ mended' = mended
      BY <2>5 DEF MendDiagnostic
    <3>2. report[i] \in Diags
      BY <3>1, DiagsAssumption
    <3>3. result' \in SourceResult /\ pc' \in {"mend", "done"}
      BY <2>5, ResultTypes DEF MendDiagnostic, FatalType
    <3>4. QED
      BY <2>5, <3>1, <3>2, <3>3 DEF MendDiagnostic
  <2>6. CASE WriteMendfile
    <3>1. result' \in SourceResult
      BY <2>6, ResultTypes DEF WriteMendfile, FatalType
    <3>2. QED
      BY <2>6, <3>1 DEF WriteMendfile
  <2>7. CASE EndIteration
    <3>1. frequency' \in [Unknown -> Nat]
      BY <2>7 DEF EndIteration
    <3>2. result' \in SourceResult
      BY <2>7, ResultTypes DEF EndIteration
    <3>3. QED
      BY <2>7, <3>1, <3>2 DEF EndIteration
  <2>8. CASE Return \/ UNCHANGED vars
    BY <2>8 DEF Return, vars
  <2>9. QED
    BY <2>1, <2>2, <2>3, <2>4, <2>4a, <2>5, <2>6, <2>7, <2>8 DEF Next
<1>3. QED
  BY <1>1, <1>2, PTL DEF Spec

-----------------------------------------------------------------------------
\* Inductive form of IterationsWithinTime: an iteration that has begun has
\* passed the test at the head of the loop, and the exporter's run makes up for
\* it.
TimeInv ==
  /\ iteration <= elapsed + (IF pc = "export" THEN 1 ELSE 0)
  /\ pc = "export" => elapsed <= MaxTotalTime

\* The time limit of the invocation bounds the iterations of mend for every
\* strategy, also for those that never see a cycle.
THEOREM TimeBound == Spec => []IterationsWithinTime
<1>1. Init => TimeInv
  BY DEF Init, TimeInv
<1>2. TypeOK /\ TimeInv /\ [Next]_vars => TimeInv'
  <2> SUFFICES ASSUME TypeOK, TimeInv, [Next]_vars PROVE TimeInv'
    OBVIOUS
  <2> USE InvocationAssumption DEF TypeOK, TimeInv
  <2>1. CASE LoopHead
    BY <2>1 DEF LoopHead, TimeIsOver
  <2>2. CASE CallDiagExporter
    <3>1. PICK t \in 1..MaxCallTime :
            elapsed' = IF elapsed + t > MaxTotalTime THEN MaxTotalTime + 1 ELSE elapsed + t
      BY <2>2 DEF CallDiagExporter
    <3>2. pc = "export" /\ pc' # "export" /\ iteration' = iteration
      BY <2>2 DEF CallDiagExporter
    <3>3. QED
      BY <3>1, <3>2
  <2>3. CASE \/ CreateMendingDir \/ Analyse \/ AnalyseThrows \/ MendDiagnostic
             \/ WriteMendfile \/ EndIteration
    <3>1. elapsed' = elapsed /\ iteration' = iteration
      BY <2>3 DEF CreateMendingDir, Analyse, AnalyseThrows, MendDiagnostic,
                    WriteMendfile, EndIteration
    <3>2. pc # "export" /\ pc' # "export"
      BY <2>3 DEF CreateMendingDir, Analyse, AnalyseThrows, MendDiagnostic,
                    WriteMendfile, EndIteration
    <3>3. QED
      BY <3>1, <3>2
  <2>4. CASE Return \/ UNCHANGED vars
    BY <2>4 DEF Return, vars
  <2>5. QED
    BY <2>1, <2>2, <2>3, <2>4 DEF Next
<1>3. TypeOK /\ TimeInv => IterationsWithinTime
  BY InvocationAssumption DEF TypeOK, TimeInv, IterationsWithinTime
<1>4. QED
  BY <1>1, <1>2, <1>3, TypeCorrect, PTL DEF Spec

-----------------------------------------------------------------------------
\* Inductive form of IterationsWithinErrors: at every step the iterations begun
\* are the errors handled, and one more from the start of an iteration until its
\* error has been remembered as handled.
HandledInv ==
  /\ handled \subseteq Errors \ Unlocated
  /\ pc \in {"createDir", "head"} => iteration = Cardinality(handled)
  /\ pc \in {"export", "analyse"} => iteration = Cardinality(handled) + 1
  /\ pc = "mend" =>
       /\ ~Finished(termination)
       /\ selected = {} => iteration = Cardinality(handled)
       /\ selected # {} => /\ iteration = Cardinality(handled) + 1
                           /\ \E i \in DOMAIN report : /\ selected = {i}
                                                       /\ report[i] \in (Errors \ Unlocated) \ handled
  /\ pc = "endIteration" =>
       IF Finished(termination) THEN iteration = Cardinality(handled) + 1
                                ELSE iteration = Cardinality(handled)
  /\ pc \in {"done", "escaped"} => iteration <= Cardinality(handled) + 1

\* Errors that the loop can hand to the handler are finitely many.
LEMMA LocatedErrors ==
  /\ IsFiniteSet(Errors \ Unlocated)
  /\ Cardinality(Errors \ Unlocated) \in Nat
  BY DiagsAssumption, FS_Difference, FS_CardinalityType

LEMMA HandledInvStep ==
  ASSUME FirstErrorStrategy, TypeOK, HandledInv, [Next]_vars
  PROVE  HandledInv'
<1>1. IsFiniteSet(handled) /\ Cardinality(handled) \in Nat
  BY LocatedErrors, FS_Subset, FS_CardinalityType DEF HandledInv
<1>2. iteration \in Nat
  BY DEF TypeOK
<1>3. invocation' = invocation
  BY DEF Next, vars, CreateMendingDir, LoopHead, CallDiagExporter, Analyse, AnalyseThrows,
         MendDiagnostic, WriteMendfile, EndIteration, Return
<1>4. Finished(termination)' = Finished(termination')
  BY <1>3 DEF Finished, Success, FinishedPrematurely
<1>5. CASE CreateMendingDir
  BY <1>1, <1>2, <1>5 DEF CreateMendingDir, HandledInv
<1>6. CASE LoopHead
  BY <1>1, <1>2, <1>6 DEF LoopHead, HandledInv
<1>7. CASE CallDiagExporter
  <2>1. /\ handled' = handled /\ iteration' = iteration
        /\ pc = "export" /\ pc' \in {"analyse", "done", "escaped"}
    BY <1>7 DEF CallDiagExporter
  <2>2. QED
    BY <1>1, <1>2, <2>1 DEF HandledInv
<1>8. CASE Analyse
  <2>1. /\ handled' = handled /\ iteration' = iteration /\ report' = report
        /\ pc = "analyse" /\ termination' = CheckTermination(report)
        /\ iteration = Cardinality(handled) + 1
    BY <1>8 DEF Analyse, HandledInv
  <2>2. CASE Finished(CheckTermination(report))
    <3>1. pc' = "endIteration"
      BY <1>8, <2>2 DEF Analyse
    <3>2. Finished(termination')
      BY <2>1, <2>2
    <3>3. QED
      BY <1>1, <1>2, <1>4, <2>1, <3>1, <3>2 DEF HandledInv
  <2>3. CASE ~Finished(CheckTermination(report))
    <3>1. HasErrorsOrFatals(report)
      BY <2>3 DEF Finished, Success, CheckTermination
    <3>2. report \in Reports
      BY <3>1 DEF HasErrorsOrFatals, TypeOK
    <3>3. PICK i \in DOMAIN report : FirstErrorOrFatal(report) = {i} /\ report[i] \in Errors
      BY <3>1, <3>2, FirstErrorExists
    <3>4. pc' = "mend" /\ selected' = {i}
      BY <1>8, <2>3, <3>1, <3>2, <3>3 DEF Analyse, FirstErrorStrategy
    <3>4a. report[i] \notin Unlocated
      <4>1. \A j \in DOMAIN report : j < i => report[j] \notin Errors
        <5>1. DOMAIN report \subseteq Int
          BY <3>2, DiagsAssumption
        <5>2. \A j \in DOMAIN report : report[j] \in Errors => i <= j
          BY <3>3 DEF FirstErrorOrFatal
        <5>3. QED
          BY <5>1, <5>2
      <4>2. ~LocationScanThrows(report)
        BY <1>8 DEF Analyse
      <4>3. QED
        BY <3>3, <4>1, <4>2 DEF LocationScanThrows
    <3>5. report[i] \notin handled
      BY <2>3, <3>1, <3>3 DEF CheckTermination, Finished, FinishedPrematurely
    <3>6. ~Finished(termination')
      BY <2>1, <2>3
    <3>7. QED
      BY <1>1, <1>2, <1>4, <2>1, <3>3, <3>4, <3>4a, <3>5, <3>6 DEF HandledInv
  <2>4. QED
    BY <2>2, <2>3
<1>8a. CASE AnalyseThrows
  BY <1>1, <1>2, <1>8a DEF AnalyseThrows, HandledInv
<1>9. CASE MendDiagnostic
  <2>1. PICK i \in DOMAIN report : /\ selected = {i}
                                   /\ report[i] \in (Errors \ Unlocated) \ handled
                                   /\ iteration = Cardinality(handled) + 1
    BY <1>9 DEF MendDiagnostic, HandledInv
  <2>2. /\ handled' = handled \cup {report[i]} /\ iteration' = iteration
        /\ pc = "mend" /\ termination' = termination /\ report' = report
        /\ \/ pc' = "mend" /\ selected' = {}
           \/ pc' = "done"
    BY <1>9, <2>1 DEF MendDiagnostic
  <2>3. Cardinality(handled') = Cardinality(handled) + 1
    BY <1>1, <2>1, <2>2, FS_AddElement
  <2>4. ~Finished(termination)
    BY <2>2 DEF HandledInv
  <2>5. handled' \subseteq Errors \ Unlocated
    BY <2>1, <2>2 DEF HandledInv
  <2>6. QED
    BY <1>1, <1>2, <1>4, <2>1, <2>2, <2>3, <2>4, <2>5 DEF HandledInv
<1>10. CASE WriteMendfile
  <2>1. /\ handled' = handled /\ iteration' = iteration /\ termination' = termination
        /\ pc = "mend" /\ selected = {} /\ pc' \in {"endIteration", "done"}
    BY <1>10 DEF WriteMendfile
  <2>2. QED
    BY <1>1, <1>2, <1>4, <2>1 DEF HandledInv
<1>11. CASE EndIteration
  BY <1>1, <1>2, <1>11 DEF EndIteration, HandledInv
<1>12. CASE Return \/ UNCHANGED vars
  BY <1>12, <1>4 DEF Return, vars, HandledInv
<1>13. QED
  BY <1>5, <1>6, <1>7, <1>8, <1>8a, <1>9, <1>10, <1>11, <1>12 DEF Next

\* The strategy is the invocation's, which no step changes.
BoundInv == TypeOK /\ (FirstErrorStrategy => HandledInv)

LEMMA BoundInvStep == BoundInv /\ TypeOK' /\ [Next]_vars => BoundInv'
<1> SUFFICES ASSUME BoundInv, TypeOK', [Next]_vars, FirstErrorStrategy' PROVE HandledInv'
  BY DEF BoundInv
<1>1. invocation' = invocation
  BY DEF Next, vars, CreateMendingDir, LoopHead, CallDiagExporter, Analyse, AnalyseThrows,
         MendDiagnostic, WriteMendfile, EndIteration, Return
<1>2. FirstErrorStrategy
  BY <1>1 DEF FirstErrorStrategy
<1>3. QED
  BY <1>2, HandledInvStep DEF BoundInv

\* With BasicFirstErrorAnalysis a file takes at most one iteration for each
\* error clang can report, and one more, whatever clang answers.
THEOREM ErrorBound == Spec => []IterationsWithinErrors
<1>1. TypeOK /\ Init => BoundInv
  BY FS_EmptySet DEF Init, BoundInv, HandledInv
<1>2. BoundInv => IterationsWithinErrors
  <2> SUFFICES ASSUME BoundInv, FirstErrorStrategy
               PROVE  iteration <= Cardinality(Errors \ Unlocated) + 1
    BY DEF IterationsWithinErrors
  <2>1. /\ Cardinality(handled) \in Nat
        /\ Cardinality(handled) <= Cardinality(Errors \ Unlocated)
    BY LocatedErrors, FS_Subset, FS_CardinalityType DEF BoundInv, HandledInv
  <2>2. iteration \in Nat /\ iteration <= Cardinality(handled) + 1
    BY <2>1 DEF BoundInv, HandledInv, TypeOK
  <2>3. QED
    BY <2>1, <2>2, LocatedErrors
<1>3. QED
  BY <1>1, <1>2, TypeCorrect, BoundInvStep, PTL DEF Spec

\* With BasicFirstErrorAnalysis the handler never mends a diagnostic twice.
THEOREM MendedOnce == Spec => NeverMendedTwice
<1>1. TypeOK /\ Init => BoundInv
  BY FS_EmptySet DEF Init, BoundInv, HandledInv
<1>2. BoundInv /\ [Next]_vars =>
        [(pc = "mend" /\ selected # {} /\ selected' # selected)
            => handled' # handled \/ ~FirstErrorStrategy]_vars
  <2> SUFFICES ASSUME BoundInv, [Next]_vars, FirstErrorStrategy,
                      pc = "mend", selected # {}, selected' # selected
               PROVE  handled' # handled
    OBVIOUS
  <2>1. MendDiagnostic
    BY DEF Next, vars, CreateMendingDir, LoopHead, CallDiagExporter, Analyse, AnalyseThrows,
           WriteMendfile, EndIteration, Return
  <2>2. QED
    BY <2>1 DEF MendDiagnostic, BoundInv, HandledInv
<1>3. QED
  BY <1>1, <1>2, TypeCorrect, BoundInvStep, PTL DEF Spec, NeverMendedTwice

-----------------------------------------------------------------------------
NoResult == [success |-> FALSE, timeout |-> FALSE, fatal |-> "none"]

\* Inductive form of SuccessCompiles and SizeReported: the result is empty until
\* mend returns, the export of an iteration is of the mendfile on disk until the
\* iteration writes it, the size that is read is that of the file exported, and an
\* iteration that finishes does not write.
OutcomeInv ==
  /\ pc # "done" => result = NoResult
  /\ pc = "head" => mendfileSize = compiled
  /\ pc = "createDir" => mendfileSize = compiled
  /\ pc = "analyse" => compiled = mendfile
  /\ pc \in {"mend", "endIteration"} => sizeRead = compiled
  /\ pc = "mend" => ~Finished(termination)
  /\ (pc = "endIteration" /\ Finished(termination)) =>
       /\ compiled = mendfile
       /\ sizeRead = mendfile
       /\ Success(termination) => ~HasErrorsOrFatals(report)
  /\ SuccessCompiles
  /\ SizeReported

LEMMA OutcomeInvInit == Init => OutcomeInv
  BY DEF Init, OutcomeInv, NoResult, SuccessCompiles, SizeReported

LEMMA OutcomeInvStep ==
  ASSUME TypeOK, OutcomeInv, [Next]_vars
  PROVE  OutcomeInv'
<1> USE DEF OutcomeInv, SuccessCompiles, SizeReported
<1>1. invocation' = invocation
  BY DEF Next, vars, CreateMendingDir, LoopHead, CallDiagExporter, Analyse, AnalyseThrows,
         MendDiagnostic, WriteMendfile, EndIteration, Return
<1>2. Finished(termination)' = Finished(termination')
  BY <1>1 DEF Finished, Success, FinishedPrematurely
<1>3. CASE CreateMendingDir
  BY <1>3 DEF CreateMendingDir, NoResult, Fatal
<1>4. CASE LoopHead
  BY <1>4 DEF LoopHead, NoResult
<1>5. CASE CallDiagExporter
  BY <1>5 DEF CallDiagExporter, NoResult, Fatal
<1>6. CASE Analyse
  <2>1. /\ pc = "analyse" /\ pc' \in {"endIteration", "mend"}
        /\ sizeRead' = mendfile /\ mendfile' = mendfile /\ compiled' = compiled
        /\ report' = report /\ result' = result /\ termination' = CheckTermination(report)
        /\ pc' = "mend" => ~Finished(termination')
    BY <1>6 DEF Analyse
  <2>2. Success(termination') => ~HasErrorsOrFatals(report)
    BY <2>1 DEF Success, CheckTermination
  <2>3. QED
    BY <1>2, <2>1, <2>2 DEF NoResult, Success, HasErrorsOrFatals
<1>6a. CASE AnalyseThrows
  BY <1>6a DEF AnalyseThrows, NoResult, Fatal
<1>7. CASE MendDiagnostic
  BY <1>2, <1>7 DEF MendDiagnostic, NoResult, Fatal
<1>8. CASE WriteMendfile
  BY <1>2, <1>8 DEF WriteMendfile, NoResult, Fatal
<1>9. CASE EndIteration
  <2>1. /\ pc = "endIteration" /\ mendfileSize' = sizeRead
        /\ mendfile' = mendfile /\ compiled' = compiled
        /\ \/ pc' = "done" /\ Finished(termination)
           \/ pc' = "head" /\ ~Finished(termination)
    BY <1>9 DEF EndIteration
  <2>2. /\ result'.success = Success(termination)
        /\ ~result'.timeout
        /\ result'.fatal = "none"
        /\ ~Success(termination) => result' = NoResult
    <3>1. result = NoResult
      BY <2>1
    <3>2. result' = [NoResult EXCEPT !.success = Success(termination)]
      BY <1>9, <3>1 DEF EndIteration
    <3>3. Success(termination) \in BOOLEAN
      BY DEF Success
    <3>4. QED
      BY <3>2, <3>3 DEF NoResult
  <2>3. Success(termination) => Finished(termination)
    BY DEF Finished
  <2>4. HasErrorsOrFatals(report)' = HasErrorsOrFatals(report)
    BY <1>9 DEF EndIteration, HasErrorsOrFatals
  <2>5. pc' # "done" => result' = NoResult
    BY <2>1, <2>2, <2>3 DEF NoResult, Success
  <2>6. SuccessCompiles'
    BY <2>1, <2>2, <2>3, <2>4
  <2>7. SizeReported'
    BY <2>1, <2>2
  <2>8. QED
    BY <2>1, <2>5, <2>6, <2>7
<1>10. CASE Return \/ UNCHANGED vars
  BY <1>2, <1>10 DEF Return, vars, NoResult, Success, HasErrorsOrFatals
<1>11. QED
  BY <1>3, <1>4, <1>5, <1>6, <1>6a, <1>7, <1>8, <1>9, <1>10 DEF Next

\* A source that mend calls a success compiles with the mendfile on disk, for
\* every strategy and whatever fails on the way.
THEOREM SuccessIsCompiled == Spec => []SuccessCompiles
<1>1. TypeOK /\ OutcomeInv /\ [Next]_vars => OutcomeInv'
  BY OutcomeInvStep
<1>2. OutcomeInv => SuccessCompiles
  BY DEF OutcomeInv
<1>3. QED
  BY <1>1, <1>2, OutcomeInvInit, TypeCorrect, PTL DEF Spec

\* Unless a step failed, the size that mend reports is that of the mendfile clang
\* was last run on, and of the one mend leaves if the time was not over.
THEOREM SizeIsCurrent == Spec => []SizeReported
<1>1. TypeOK /\ OutcomeInv /\ [Next]_vars => OutcomeInv'
  BY OutcomeInvStep
<1>2. OutcomeInv => SizeReported
  BY DEF OutcomeInv
<1>3. QED
  BY <1>1, <1>2, OutcomeInvInit, TypeCorrect, PTL DEF Spec

-----------------------------------------------------------------------------
\* Inductive form of MendfileCurrent: only between the first mend of an
\* iteration and the writing of the mendfile is the table ahead of it.
CurrentInv ==
  ~invocation.createMendfileOnlyOnAlterations =>
    /\ pc \in {"createDir", "head", "export", "analyse", "endIteration"} => mendfile = mended
    /\ pc # "done" => result.fatal = "none"
    /\ (pc = "done" /\ result.fatal = "none") => mendfile = mended

\* The mendfile that is compiled and the one that is left declare every mend.
THEOREM MendfileIsCurrent == Spec => []MendfileCurrent
<1>1. Init => CurrentInv
  BY DEF Init, CurrentInv
<1>2. TypeOK /\ CurrentInv /\ [Next]_vars => CurrentInv'
  <2> SUFFICES ASSUME TypeOK, CurrentInv, [Next]_vars PROVE CurrentInv'
    OBVIOUS
  <2> USE DEF CurrentInv
  <2>1. CASE CreateMendingDir
    BY <2>1 DEF CreateMendingDir, Fatal
  <2>2. CASE LoopHead
    BY <2>2 DEF LoopHead, TypeOK, SourceResult
  <2>3. CASE CallDiagExporter
    BY <2>3 DEF CallDiagExporter, Fatal
  <2>4. CASE Analyse
    <3>1. /\ invocation' = invocation /\ mended' = mended /\ mendfile' = mendfile
          /\ pc = "analyse" /\ pc' \in {"endIteration", "mend"} /\ result' = result
      BY <2>4 DEF Analyse
    <3>2. QED
      BY <3>1
  <2>4a. CASE AnalyseThrows
    BY <2>4a DEF AnalyseThrows, Fatal
  <2>5. CASE MendDiagnostic
    BY <2>5 DEF MendDiagnostic, Fatal
  <2>6. CASE WriteMendfile
    BY <2>6 DEF WriteMendfile, Fatal
  <2>7. CASE EndIteration
    BY <2>7 DEF EndIteration, TypeOK, SourceResult
  <2>8. CASE Return \/ UNCHANGED vars
    BY <2>8 DEF Return, vars
  <2>9. QED
    BY <2>1, <2>2, <2>3, <2>4, <2>4a, <2>5, <2>6, <2>7, <2>8 DEF Next
<1>3. CurrentInv => MendfileCurrent
  BY DEF CurrentInv, MendfileCurrent
<1>4. QED
  BY <1>1, <1>2, <1>3, TypeCorrect, PTL DEF Spec

-----------------------------------------------------------------------------
NoneCounted == [d \in Unknown |-> 0]

\* Inductive form of UnknownCountedOnce: no unknown diagnostic is in the table
\* before the iteration that finishes, which is the only one that counts any.
UnknownInv ==
  ~invocation.continueOnUnknownDiagnostic =>
    /\ pc # "done" => frequency = NoneCounted
    /\ pc \in {"createDir", "head", "export", "analyse", "mend"} => unknownCount = NoneCounted
    /\ (pc = "endIteration" /\ ~Finished(termination)) => unknownCount = NoneCounted
    /\ pc = "mend" => ~Finished(termination)
    /\ pc = "done" => frequency = unknownCount

\* When the mending goes on, the iteration that ends has counted the whole list.
NoneMissing ==
  (pc \in {"createDir", "head"} \/ (pc = "done" /\ result.fatal = "none"))
    => \A d \in Unknown : frequency[d] >= unknownCount[d]

LEMMA NoneMissingStep ==
  ASSUME TypeOK, NoneMissing, [Next]_vars
  PROVE  NoneMissing'
<1> USE DEF NoneMissing
<1>1. CASE CreateMendingDir
  BY <1>1 DEF CreateMendingDir, Fatal
<1>2. CASE LoopHead
  BY <1>2 DEF LoopHead
<1>3. CASE CallDiagExporter
  BY <1>3 DEF CallDiagExporter, Fatal
<1>4. CASE Analyse
  BY <1>4 DEF Analyse
<1>5. CASE AnalyseThrows
  BY <1>5 DEF AnalyseThrows, Fatal
<1>6. CASE MendDiagnostic
  BY <1>6 DEF MendDiagnostic, Fatal
<1>7. CASE WriteMendfile
  BY <1>7 DEF WriteMendfile, Fatal
<1>8. CASE EndIteration
  <2>1. /\ frequency' = [d \in Unknown |-> frequency[d] + unknownCount[d]]
        /\ unknownCount' = unknownCount
    BY <1>8 DEF EndIteration
  <2>2. \A d \in Unknown : frequency[d] \in Nat /\ unknownCount[d] \in Nat
    BY DEF TypeOK
  <2>3. QED
    BY <2>1, <2>2
<1>9. CASE Return \/ UNCHANGED vars
  BY <1>9 DEF Return, vars
<1>10. QED
  BY <1>1, <1>2, <1>3, <1>4, <1>5, <1>6, <1>7, <1>8, <1>9 DEF Next

\* The report counts every unknown diagnostic once if the mending stops on it, and
\* at least once if it goes on and no exception ends the file.
THEOREM UnknownIsCountedOnce == Spec => []UnknownCountedOnce
<1>1. Init => UnknownInv
  BY DEF Init, UnknownInv, NoneCounted
<1>2. TypeOK /\ UnknownInv /\ [Next]_vars => UnknownInv'
  <2> SUFFICES ASSUME TypeOK, UnknownInv, [Next]_vars,
                      ~invocation'.continueOnUnknownDiagnostic
               PROVE  UnknownInv'
    BY DEF UnknownInv
  <2>1. invocation' = invocation
    BY DEF Next, vars, CreateMendingDir, LoopHead, CallDiagExporter, Analyse, AnalyseThrows,
           MendDiagnostic, WriteMendfile, EndIteration, Return
  <2>2. Finished(termination)' = Finished(termination')
    BY <2>1 DEF Finished, Success, FinishedPrematurely
  <2>3. NoneCounted' = NoneCounted
    BY DEF NoneCounted
  <2> USE <2>1, <2>2, <2>3 DEF UnknownInv
  <2>4. CASE CreateMendingDir
    BY <2>4 DEF CreateMendingDir
  <2>5. CASE LoopHead
    BY <2>5 DEF LoopHead
  <2>6. CASE CallDiagExporter
    BY <2>6 DEF CallDiagExporter
  <2>7. CASE Analyse
    <3>1. /\ pc = "analyse" /\ frequency' = frequency
          /\ termination' = CheckTermination(report)
          /\ \/ pc' = "endIteration" /\ Finished(termination')
             \/ pc' = "mend" /\ ~Finished(termination')
      BY <2>7 DEF Analyse
    <3>2. ASSUME ~Finished(termination')
          PROVE  unknownCount' = NoneCounted
      <4>1. CheckTermination(report) # "UNKNOWN_DIAGNOSTIC"
        BY <3>1, <3>2 DEF Finished, FinishedPrematurely
      <4>2. unknownCount' = [d \in Unknown |-> unknownCount[d] + 0]
        BY <2>7, <4>1 DEF Analyse
      <4>3. unknownCount = NoneCounted
        BY <3>1
      <4>4. QED
        BY <4>2, <4>3 DEF NoneCounted
    <3>3. QED
      BY <3>1, <3>2
  <2>7a. CASE AnalyseThrows
    BY <2>7a DEF AnalyseThrows
  <2>8. CASE MendDiagnostic
    BY <2>8 DEF MendDiagnostic
  <2>9. CASE WriteMendfile
    BY <2>9 DEF WriteMendfile
  <2>10. CASE EndIteration
    <3>1. /\ pc = "endIteration" /\ unknownCount' = unknownCount
          /\ termination' = termination
          /\ frequency' = [d \in Unknown |-> frequency[d] + unknownCount[d]]
          /\ \/ pc' = "done" /\ Finished(termination)
             \/ pc' = "head" /\ ~Finished(termination)
      BY <2>10 DEF EndIteration
    <3>2. frequency = NoneCounted
      BY <3>1
    <3>3. frequency' = unknownCount
      BY <3>1, <3>2 DEF NoneCounted, TypeOK
    <3>4. QED
      BY <3>1, <3>3
  <2>11. CASE Return \/ UNCHANGED vars
    BY <2>11 DEF Return, vars
  <2>12. QED
    BY <2>4, <2>5, <2>6, <2>7, <2>7a, <2>8, <2>9, <2>10, <2>11 DEF Next
<1>3. Init => NoneMissing
  BY DEF Init, NoneMissing
<1>4. TypeOK /\ NoneMissing /\ [Next]_vars => NoneMissing'
  BY NoneMissingStep
<1>5. UnknownInv /\ NoneMissing => UnknownCountedOnce
  BY DEF UnknownInv, NoneMissing, UnknownCountedOnce
<1>6. QED
  BY <1>1, <1>2, <1>3, <1>4, <1>5, TypeCorrect, PTL DEF Spec

-----------------------------------------------------------------------------
\* A step that ends the file without success is GiveUp, for every mendfile that
\* holds a part of the mends.
LEMMA EndsWithoutSuccess ==
  ASSUME pc \notin {"done", "escaped"}, Verdict # "clean",
         pc' \in {"done", "escaped"}, result'.success = FALSE,
         mended' = mended, mendfile' \subseteq mended
  PROVE  M!GiveUp
<1>1. Outcome = "running" /\ Outcome' = "failed"
  BY DEF Outcome
<1>2. Verdict' = "unknown"
  BY DEF Verdict
<1>3. QED
  BY <1>1, <1>2 DEF M!GiveUp

\* A step that leaves the table, the mendfile, the verdict and the outcome alone.
LEMMA Stutters ==
  ASSUME mended' = mended, mendfile' = mendfile, Verdict' = Verdict, Outcome' = Outcome
  PROVE  UNCHANGED M!vars
  BY DEF M!vars

LEMMA ImplementsStep ==
  ASSUME TypeOK, OutcomeInv, [Next]_vars
  PROVE  [M!Next]_(M!vars)
<1>1. invocation' = invocation
  BY DEF Next, vars, CreateMendingDir, LoopHead, CallDiagExporter, Analyse, AnalyseThrows,
         MendDiagnostic, WriteMendfile, EndIteration, Return
<1>2. FinishedPrematurely(termination)' = FinishedPrematurely(termination')
  BY <1>1 DEF FinishedPrematurely
<1>3. pc # "done" => result.success = FALSE
  BY DEF OutcomeInv, NoResult
<1>4. mendfile \subseteq mended
  BY DEF TypeOK
<1>5. CASE CreateMendingDir
  <2>1. pc = "createDir" /\ mended' = mended /\ mendfile' = mendfile /\ Verdict = "unknown"
    BY <1>5 DEF CreateMendingDir, Verdict
  <2>2. CASE pc' = "head"
    <3>1. Verdict' = Verdict /\ Outcome' = Outcome
      BY <2>1, <2>2 DEF Verdict, Outcome
    <3>2. QED
      BY <2>1, <3>1, Stutters
  <2>3. CASE pc' = "done"
    <3>1. result'.success = FALSE
      BY <1>5, <2>3 DEF CreateMendingDir, Fatal
    <3>2. QED
      BY <1>4, <2>1, <2>3, <3>1, EndsWithoutSuccess DEF M!Next
  <2>4. QED
    BY <1>5, <2>2, <2>3 DEF CreateMendingDir
<1>6. CASE LoopHead
  <2>1. pc = "head" /\ mended' = mended /\ mendfile' = mendfile /\ Verdict = "unknown"
    BY <1>6 DEF LoopHead, Verdict
  <2>2. CASE pc' = "export"
    <3>1. Verdict' = Verdict /\ Outcome' = Outcome
      BY <2>1, <2>2 DEF Verdict, Outcome
    <3>2. QED
      BY <2>1, <3>1, Stutters
  <2>3. CASE pc' = "done"
    <3>1. result' = [result EXCEPT !.timeout = TRUE]
      BY <1>6, <2>3 DEF LoopHead
    <3>2. result'.success = FALSE
      BY <1>3, <2>1, <3>1 DEF TypeOK, SourceResult
    <3>3. QED
      BY <1>4, <2>1, <2>3, <3>2, EndsWithoutSuccess DEF M!Next
  <2>4. QED
    BY <1>6, <2>2, <2>3 DEF LoopHead
<1>7. CASE CallDiagExporter
  <2>1. pc = "export" /\ mended' = mended /\ mendfile' = mendfile /\ Verdict = "unknown"
    BY <1>7 DEF CallDiagExporter, Verdict
  <2>2. CASE pc' = "analyse"
    <3>1. Verdict' \in {"errors", "clean"} /\ Outcome = "running" /\ Outcome' = Outcome
      BY <2>1, <2>2 DEF Verdict, Outcome
    <3>2. QED
      BY <2>1, <3>1 DEF M!Next, M!Compile
  <2>3. CASE pc' \in {"done", "escaped"}
    <3>1. result'.success = FALSE
      BY <1>3, <1>7, <2>1, <2>3 DEF CallDiagExporter, Fatal
    <3>2. QED
      BY <1>4, <2>1, <2>3, <3>1, EndsWithoutSuccess DEF M!Next
  <2>4. QED
    BY <1>7, <2>2, <2>3 DEF CallDiagExporter
<1>8. CASE Analyse
  <2>1. /\ pc = "analyse" /\ mended' = mended /\ mendfile' = mendfile
        /\ termination' = CheckTermination(report)
        /\ pc' = IF Finished(termination') THEN "endIteration" ELSE "mend"
    BY <1>8 DEF Analyse
  <2>2. Outcome' = Outcome
    BY <2>1 DEF Outcome
  <2>3. HasErrorsOrFatals(report) <=> ~Success(termination')
    BY <2>1 DEF CheckTermination, Success
  <2>4. Verdict = IF Success(termination') THEN "clean" ELSE "errors"
    BY <2>1, <2>3 DEF Verdict
  <2>5. Success(termination') => ~FinishedPrematurely(termination')
    BY DEF Success, FinishedPrematurely
  <2>6. Success(termination)' = Success(termination')
    BY DEF Success
  <2>7. Verdict' = IF Success(termination') THEN "clean" ELSE "errors"
    BY <1>2, <2>1, <2>5, <2>6 DEF Verdict, Finished
  <2>8. QED
    BY <2>1, <2>2, <2>4, <2>7, Stutters
<1>9. CASE AnalyseThrows
  <2>1. HasErrorsOrFatals(report)
    BY <1>9 DEF AnalyseThrows, LocationScanThrows, HasErrorsOrFatals
  <2>2. /\ pc = "analyse" /\ pc' = "done" /\ mended' = mended /\ mendfile' = mendfile
        /\ result'.success = FALSE
    BY <1>9 DEF AnalyseThrows, Fatal
  <2>3. Verdict = "errors"
    BY <2>1, <2>2 DEF Verdict
  <2>4. QED
    BY <1>4, <2>2, <2>3, EndsWithoutSuccess DEF M!Next
<1>10. CASE MendDiagnostic
  <2>1. /\ pc = "mend" /\ mendfile' = mendfile /\ Verdict = "errors" /\ Outcome = "running"
    BY <1>10 DEF MendDiagnostic, Verdict, Outcome
  <2>2. CASE pc' = "mend"
    <3>1. Verdict' = Verdict /\ Outcome' = Outcome
      BY <2>1, <2>2 DEF Verdict, Outcome
    <3>2. PICK i \in selected : mended' = mended \cup {report[i]} \/ mended' = mended
      BY <1>10 DEF MendDiagnostic
    <3>3. report[i] \in Diags
      BY <3>2, DiagsAssumption DEF TypeOK
    <3>4. mended' = mended \/ M!Mend
      BY <2>1, <3>1, <3>2, <3>3 DEF M!Mend
    <3>5. QED
      BY <2>1, <3>1, <3>4, Stutters DEF M!Next
  <2>3. CASE pc' = "done"
    <3>1. mended' = mended /\ result'.success = FALSE
      BY <1>10, <2>1, <2>3 DEF MendDiagnostic, Fatal
    <3>2. QED
      BY <1>4, <2>1, <2>3, <3>1, EndsWithoutSuccess DEF M!Next
  <2>4. QED
    BY <1>10, <2>2, <2>3 DEF MendDiagnostic
<1>11. CASE WriteMendfile
  <2>1. /\ pc = "mend" /\ mended' = mended /\ termination' = termination
        /\ Verdict = "errors" /\ Outcome = "running"
    BY <1>11 DEF WriteMendfile, Verdict, Outcome
  <2>2. CASE pc' = "endIteration"
    <3>1. ~Finished(termination)
      BY <2>1 DEF OutcomeInv
    <3>2. Verdict' = "unknown" /\ Outcome' = "running"
      BY <1>2, <2>1, <2>2, <3>1 DEF Verdict, Outcome, Finished, Success
    <3>3. mendfile' = mended \/ mendfile' = mendfile
      BY <1>11, <2>2 DEF WriteMendfile
    <3>4. M!Show \/ M!Retry
      BY <2>1, <3>2, <3>3 DEF M!Show, M!Retry
    <3>5. QED
      BY <3>4 DEF M!Next
  <2>3. CASE pc' = "done"
    <3>1. mendfile' \subseteq mended /\ result'.success = FALSE
      BY <1>11, <2>3 DEF WriteMendfile, Fatal
    <3>2. QED
      BY <2>1, <2>3, <3>1, EndsWithoutSuccess DEF M!Next
  <2>4. QED
    BY <1>11, <2>2, <2>3 DEF WriteMendfile
<1>12. CASE EndIteration
  <2>1. /\ pc = "endIteration" /\ mended' = mended /\ mendfile' = mendfile
        /\ pc' = (IF Finished(termination) THEN "done" ELSE "head") /\ Outcome = "running"
    BY <1>12 DEF EndIteration, Outcome
  <2>2. result'.success = Success(termination)
    <3>1. result' = [result EXCEPT !.success = Success(termination)]
      BY <1>12 DEF EndIteration
    <3>2. QED
      BY <3>1 DEF TypeOK, SourceResult
  <2>3. CASE Success(termination)
    <3>1. pc' = "done" /\ result'.success
      BY <2>1, <2>2, <2>3 DEF Finished
    <3>2. Verdict = "clean" /\ Verdict' = "clean" /\ Outcome' = "mended"
      BY <2>1, <2>3, <3>1 DEF Verdict, Outcome, Success, FinishedPrematurely
    <3>3. QED
      BY <2>1, <3>2 DEF M!Next, M!Succeed
  <2>4. CASE ~Success(termination) /\ Finished(termination)
    <3>1. pc' = "done" /\ result'.success = FALSE
      BY <2>1, <2>2, <2>4 DEF Success
    <3>2. Verdict = "errors"
      BY <2>1, <2>4 DEF Verdict, Finished
    <3>3. QED
      BY <1>4, <2>1, <3>1, <3>2, EndsWithoutSuccess DEF M!Next
  <2>5. CASE ~Finished(termination)
    <3>1. Verdict' = "unknown" /\ Outcome' = "running" /\ Verdict = "unknown"
      BY <2>1, <2>5 DEF Verdict, Outcome, Finished
    <3>2. QED
      BY <2>1, <3>1, Stutters
  <2>6. QED
    BY <2>3, <2>4, <2>5 DEF Finished
<1>13. CASE Return \/ UNCHANGED vars
  <2>1. Verdict' = Verdict /\ Outcome' = Outcome
    BY <1>13 DEF Return, vars, Verdict, Outcome, FinishedPrematurely, Success, HasErrorsOrFatals
  <2>2. QED
    BY <1>13, <2>1, Stutters DEF Return, vars
<1>14. QED
  BY <1>5, <1>6, <1>7, <1>8, <1>9, <1>10, <1>11, <1>12, <1>13 DEF Next

\* The loop implements Mending, for every strategy and every invocation: the
\* outcome of a file is what the compiler says of the mendfile that is on disk,
\* and a clean export is never given up.
THEOREM LoopImplementsMending == Spec => ImplementsMending
<1>1. Init => M!Init
  BY DEF Init, M!Init, Verdict, Outcome
<1>2. TypeOK /\ OutcomeInv /\ [Next]_vars => OutcomeInv'
  BY OutcomeInvStep
<1>3. TypeOK /\ OutcomeInv /\ [Next]_vars => [M!Next]_(M!vars)
  BY ImplementsStep
<1>4. QED
  BY <1>1, <1>2, <1>3, OutcomeInvInit, TypeCorrect, PTL DEF Spec, ImplementsMending, M!Spec
=============================================================================
