----------------------- MODULE MultipleErrorsSelection -----------------------
(***************************************************************************)
(* BasicMultipleErrorsAnalysis.selectDiagnostics as the code runs it: one  *)
(* list of indices that three loops rewrite in place, one step of a loop   *)
(* per action.  The loops are those of DiagnosticSelection; here they are  *)
(* compared with what their comments say they compute.                     *)
(***************************************************************************)
EXTENDS DiagnosticSelection

CONSTANT Reports

ASSUME ReportsAssumption == \A r \in Reports : r \in Seq(ToSet(r))

VARIABLES
  report,
  all,    \* the list as getDiagIdxs returned it
  loop,   \* the loop of the current pass, over missingPPFilesAndSymbolDiags
  stage,  \* the current pass
  selected

vars == <<report, all, loop, stage, selected>>

Init ==
  /\ report \in Reports
  /\ \E i \in DOMAIN report : IsErrorOrFatal(report[i])
  /\ all = <<>> /\ selected = <<>>
  /\ loop = NewLoop(<<>>)
  /\ stage = "collect"

Collect ==
  /\ stage = "collect" /\ stage' = "exact"
  /\ all' = GetDiagIdxs(report, BatchIds)
  /\ loop' = NewLoop(all')
  /\ UNCHANGED <<report, selected>>

\* A step of the loop of a pass, or from its end to the pass that follows.
Pass(from, to, From(_), Removes(_, _)) ==
  /\ stage = from
  /\ IF AtEnd(loop)
       THEN stage' = to /\ loop' = NewLoop(loop.list)
       ELSE loop' = LoopStep(report, loop, From, Removes) /\ UNCHANGED stage
  /\ UNCHANGED <<report, all, selected>>

AfterNext(i) == i + 2

\* Mutant: the entry that follows the one that is kept is not compared.
RemoveExactlyRepeatedFromNext == Pass("exact", "std", AfterNext, SameMessage)

RemoveExactlyRepeated == Pass("exact", "std", After, SameMessage)

RemoveStdSimilar == Pass("std", "tag", FromStart, SupersedesStd)

\* Mutant: only reports with the same id are taken to be of the same tag.
RemoveTagOfSameId == Pass("tag", "return", FromStart, SameMessage)

RemoveTagSimilar == Pass("tag", "return", FromStart, SupersedesTag)

\* Mutant: the strategy has nothing to fall back on.
ReturnWithoutFallback ==
  /\ stage = "return" /\ stage' = "returned"
  /\ selected' = loop.list
  /\ UNCHANGED <<report, all, loop>>

Return ==
  /\ stage = "return" /\ stage' = "returned"
  /\ selected' = IF loop.list # <<>> THEN loop.list ELSE SelectFirstError(report)
  /\ UNCHANGED <<report, all, loop>>

Next == Collect \/ RemoveExactlyRepeated \/ RemoveStdSimilar \/ RemoveTagSimilar \/ Return

Spec == Init /\ [][Next]_vars

-----------------------------------------------------------------------------
Ended(pass) == stage = pass /\ AtEnd(loop)

Increasing(s) == \A i, j \in DOMAIN s : i < j => s[i] < s[j]

\* "This will remove further occurences, meaning the one that remains will be the
\* first one that appears": after the first pass the list holds, in order, the
\* diagnostics whose message no earlier one of the list has.
FirstOccurrencesRemain ==
  Ended("exact") =>
    /\ Increasing(loop.list)
    /\ ToSet(loop.list) =
         {i \in ToSet(all) : \A j \in ToSet(all) : j < i => ~SameMessage(report[i], report[j])}

\* Every tag that is reported as incomplete is still defined by the batch, once:
\* the pass that follows the removal of similar identifiers, on a list that has
\* shrunk, neither loses a tag nor keeps two reports of it.
EachTagOnce ==
  Ended("tag") =>
    \A i \in ToSet(all) : report[i].id \in TagSpace =>
      \E j \in ToSet(loop.list) :
        \A k \in ToSet(loop.list) :
          SupersedesTag(report[i], report[k]) <=> k = j

\* The handler is given something to mend whenever there is an error, diagnostics of
\* this report, each at most once and in its order, even when the passes leave
\* nothing of the batch.
SelectionServes ==
  stage = "returned" =>
    /\ selected # <<>> /\ Increasing(selected)
    /\ ToSet(selected) \subseteq DOMAIN report

\* "ERR_UNKNOWN_TYPENAME and ERR_UNKNOWN_TYPENAME_SUGGEST, the latter ones are more
\* specific and should be kept": a name reported as an unknown type is declared
\* as a type by the batch, and not as a variable.
TypenameKept ==
  Ended("std") =>
    \A i \in ToSet(all) : report[i].id \in UnknownTypename =>
      \E j \in ToSet(loop.list) : report[j].id \in UnknownTypename /\ report[j].name = report[i].name
=============================================================================
