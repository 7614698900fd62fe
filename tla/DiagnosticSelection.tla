------------------------- MODULE DiagnosticSelection -------------------------
(***************************************************************************)
(* The three implementations of DiagnosticAnalysis.selectDiagnostics.  A   *)
(* diagnostic is a record: its DiagnosticID, its level, the identifier its *)
(* arguments name and the place it is reported at.  Its message repeats    *)
(* the id and the identifier and nothing else that varies, so that         *)
(* [id, name] stands for the message.  A report is a sequence of           *)
(* diagnostics and a list of selected diagnostics is a sequence of indices *)
(* of it, as in the code.                                                  *)
(***************************************************************************)
EXTENDS Integers, SequencesExt

UndeclaredVar   == {"ERR_UNDECLARED_VAR_USE", "ERR_UNDECLARED_VAR_USE_SUGGEST"}
UnknownTypename == {"ERR_UNKNOWN_TYPENAME", "ERR_UNKNOWN_TYPENAME_SUGGEST"}
StdSpace        == UndeclaredVar \cup UnknownTypename
TagSpace        == {"ERR_TYPECHECK_DECL_INCOMPLETE_TYPE", "ERR_FUNC_DEF_INCOMPLETE_RESULT"}

\* The ids that BasicMultipleErrorsAnalysis handles in batches.
BatchIds == {"ERR_PP_FILE_NOT_FOUND", "EXT_IMPLICIT_FUNCTION_DECL_C99", "ERR_NO_MEMBER"}
            \cup StdSpace \cup TagSpace

\* The ids that DiagnosticID lists and that are never handled in batches.
SingleIds == {"ERR_ARRAY_SIZE_NON_INT", "ERR_CALL_INCOMPLETE_ARGUMENT",
              "ERR_TYPECHECK_CONVERT_INCOMPATIBLE", "ERR_TYPECHECK_ILLEGAL_INCREMENT_DECREMENT",
              "ERR_TYPECHECK_INVALID_OPERANDS", "ERR_TYPECHECK_MEMBER_REFERENCE_SUGGESTION",
              "ERR_TYPECHECK_SUBSCRIPT_NOT_INTEGER", "ERR_TYPECHECK_SUBSCRIPT_VALUE"}

\* DiagnosticID.isUnknown, Diagnostic.isErrorOrFatal.
IsUnknown(d) == d.id \notin BatchIds \cup SingleIds
IsErrorOrFatal(d) == d.level \in {"error", "fatal"}

SameMessage(d, e) == d.id = e.id /\ d.name = e.name

\* DiagExporterSourceResult.getDiagIdxs.
GetDiagIdxs(r, ids) ==
  LET upTo[n \in 0..Len(r)] ==
        IF n = 0 THEN <<>>
        ELSE IF r[n].id \in ids THEN Append(upTo[n - 1], n) ELSE upTo[n - 1]
  IN  upTo[Len(r)]

-----------------------------------------------------------------------------
\* The shape of the three removal loops.  The outer loop visits the positions i
\* of the list while i is not the last one, keeping the diagnostic found there;
\* the inner loop visits the positions j from From(i) on, and an entry that
\* Removes says the diagnostic makes redundant is taken out, after which the
\* same position j is looked at again.  Position i itself is skipped, but the
\* list may have moved under it.  Loops(n) are the loops over indices of a report
\* of n diagnostics.
Loops(n) == [list : Seq(1..n), i : Nat \ {0}, j : Nat \ {0}, kept : 0..n]

NoDiag == 0   \* at the head of the outer loop nothing is kept

NewLoop(list) == [list |-> list, i |-> 1, j |-> 1, kept |-> NoDiag]

AtEnd(l) == l.kept = NoDiag /\ l.i >= Len(l.list)

LoopStep(r, l, From(_), Removes(_, _)) ==
  IF l.kept = NoDiag THEN [l EXCEPT !.kept = l.list[l.i], !.j = From(l.i)]
  ELSE IF l.j > Len(l.list) THEN [l EXCEPT !.kept = NoDiag, !.i = l.i + 1]
  ELSE IF l.j # l.i /\ Removes(r[l.kept], r[l.list[l.j]])
         THEN [l EXCEPT !.list = RemoveAt(l.list, l.j)]
  ELSE [l EXCEPT !.j = l.j + 1]

\* The list that such a loop leaves.
RemovalLoop(r, list, From(_), Removes(_, _)) ==
  LET run[l \in Loops(Len(r))] ==
        IF AtEnd(l) THEN l.list ELSE run[LoopStep(r, l, From, Removes)]
  IN  run[NewLoop(list)]

After(i) == i + 1
FromStart(i) == 1

RemoveExactlyRepeatedDiagnostics(r, list) ==
  RemovalLoop(r, list, After, SameMessage)

\* An undeclared variable never removes an unknown type name.
SupersedesStd(d, e) ==
  /\ d.id \in StdSpace /\ e.id \in StdSpace
  /\ ~(d.id \in UndeclaredVar /\ e.id \in UnknownTypename)
  /\ d.name = e.name

RemoveStdIdentifierSpaceSimilarDiagnostics(r, list) ==
  RemovalLoop(r, list, FromStart, SupersedesStd)

SupersedesTag(d, e) == d.id \in TagSpace /\ e.id \in TagSpace /\ d.name = e.name

RemoveTagSpaceSimilarDiagnostics(r, list) ==
  RemovalLoop(r, list, FromStart, SupersedesTag)

-----------------------------------------------------------------------------
\* BasicFirstErrorAnalysis.
SelectFirstError(r) ==
  LET errors == {i \in DOMAIN r : IsErrorOrFatal(r[i])}
  IN  IF errors = {} THEN <<>> ELSE <<Min(errors)>>

\* BasicMultiplePPErrorsAnalysis.
SelectMultiplePPErrors(r) ==
  LET missing == RemoveExactlyRepeatedDiagnostics(r, GetDiagIdxs(r, {"ERR_PP_FILE_NOT_FOUND"}))
  IN  IF missing # <<>> THEN missing ELSE SelectFirstError(r)

\* BasicMultipleErrorsAnalysis.
SelectMultipleErrors(r) ==
  LET all     == GetDiagIdxs(r, BatchIds)
      once    == RemoveExactlyRepeatedDiagnostics(r, all)
      std     == RemoveStdIdentifierSpaceSimilarDiagnostics(r, once)
      missing == RemoveTagSpaceSimilarDiagnostics(r, std)
  IN  IF missing # <<>> THEN missing ELSE SelectFirstError(r)
=============================================================================
