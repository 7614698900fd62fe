---------------------------- MODULE MCMendingLoop ----------------------------
(* Instances of MendingLoop with the strategies of DiagnosticSelection. *)
EXTENDS MendingLoop, DiagnosticSelection

Diag(id, level, name, at) == [id |-> id, level |-> level, name |-> name, at |-> at]

UndeclaredX == Diag("ERR_UNDECLARED_VAR_USE", "error", "x", 3)
Strange     == Diag("ERR_OF_NO_HEURISTIC", "error", "z", 6)
HeaderH     == Diag("ERR_PP_FILE_NOT_FOUND", "fatal", "h", 1)

\* About options of the command line, which have no location.
BadOption   == Diag("ERR_OF_AN_OPTION", "error", "o", 0)
OddOption   == Diag("WARN_OF_AN_OPTION", "warning", "o", 0)

\* A missing header, a symbol, an error without a heuristic, and an error and a
\* warning without a location.
MCDiags == {HeaderH, UndeclaredX, Strange, BadOption, OddOption}

MCErrors == {d \in Diags : IsErrorOrFatal(d)}
MCUnknown == {d \in Diags : IsUnknown(d)}

MCUnlocated == {d \in Diags : d.at = 0}
MCInSource == Diags \ MCUnlocated

FirstError == "BasicFirstErrorAnalysis"
MultiplePPErrors == "BasicMultiplePPErrorsAnalysis"
MultipleErrors == "BasicMultipleErrorsAnalysis"
MCAnalyses == {FirstError, MultiplePPErrors, MultipleErrors}

Options(analyses, continue, onlyOnAlterations) ==
  [analysis : analyses, continueOnUnknownDiagnostic : continue,
   createMendfileOnlyOnAlterations : onlyOnAlterations]

\* Every combination of the options with the default strategy, and the strategies
\* that batch with the ones that let them run longest.
MCInvocations ==
  Options({FirstError}, BOOLEAN, BOOLEAN)
    \cup Options({MultiplePPErrors, MultipleErrors}, {TRUE}, {FALSE})

\* Every report of at most two diagnostics, in every order.
MCReports == UNION {[1..n -> Diags] : n \in 0..2}

\* AnalysisFactory.createAnalysis.  The lists of indices are increasing, so that
\* the set of indices is enough.
MCSelectDiagnostics(analysis, r) ==
  ToSet(CASE analysis = FirstError -> SelectFirstError(r)
          [] analysis = MultiplePPErrors -> SelectMultiplePPErrors(r)
          [] analysis = MultipleErrors -> SelectMultipleErrors(r))
=============================================================================
