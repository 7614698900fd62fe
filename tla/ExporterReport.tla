---------------------------- MODULE ExporterReport ----------------------------
(***************************************************************************)
(* What one diagnostic of clang becomes on its way to CMender: the JSON    *)
(* consumer of diag-exporter counts and converts it, the action stores the *)
(* consumer's object in the result slot, main writes the slots to the      *)
(* output file, and DiagExporter.run reads that file once the process has  *)
(* ended.  CMender gives the exporter one file, and the same output path   *)
(* in every iteration: what an earlier run wrote stays there until a later *)
(* one opens the file.                                                     *)
(*                                                                         *)
(* Clang and the JSON libraries are external: clang hands diagnostics to   *)
(* the consumer while an action executes, and only notes after a fatal     *)
(* one; nlohmann's dump throws on text that is not UTF-8; Jackson throws   *)
(* on a value that the record of the reader has no place for.              *)
(***************************************************************************)
EXTENDS Integers, Sequences, SequencesExt, FiniteSetsExt

CONSTANTS
  MaxRuns,      \* bound: runs of the exporter on one file
  MaxDiags,     \* bound: diagnostics of one run
  Start,        \* DIAG_START of each category, in clang's order
  Count,        \* the number of diagnostics of each category
  UpperLimit,   \* DIAG_UPPER_LIMIT; ids from here on are custom
  Types,        \* canonical types
  Shape,        \* type -> its class and the canonical QualTypes it is made of
  Diagnostics,  \* what clang can report
  Mapping,      \* the severity mapping file: ids -> severities
  IntWidth,     \* bits of a Java int
  Null          \* JSON's null

Levels == {"ignored", "note", "remark", "warning", "error", "fatal"}
Categories == 1..Len(Start)

ASSUME LayoutAssumption ==
  /\ IntWidth \in Nat \ {0} /\ UpperLimit \in Nat
  /\ Start \in Seq(Nat) /\ Count \in Seq(Nat)
  /\ Len(Count) = Len(Start) /\ Start # <<>> /\ Start[1] = 0
  /\ \A k \in Categories :
       Start[k] + Count[k] < IF k = Len(Start) THEN UpperLimit ELSE Start[k + 1]

\* A type is made of types that were there before it.  A record is made of none:
\* VisitRecordType does not look at its members.
PartTypes(t) == {Shape[t].parts[i].type : i \in DOMAIN Shape[t].parts}

ASSUME TypesAssumption ==
  /\ \A t \in Types : PartTypes(t) \subseteq Types
  /\ \A C \in SUBSET Types : C # {} => \E t \in C : PartTypes(t) \cap C = {}

\* An id is custom or that of a label, and a macro location has a caller.
ASSUME DiagnosticsAssumption ==
  /\ MaxRuns \in Nat \ {0}
  /\ \A d \in Diagnostics :
       /\ DOMAIN d = {"id", "level", "args", "location", "utf8"}
       /\ d.level \in Levels
       /\ d.id \in Nat
       /\ d.id < UpperLimit => \E k \in Categories : d.id - Start[k] \in 1..Count[k]
       /\ d.args \in Seq(ToSet(d.args))
       /\ \A i \in DOMAIN d.args : d.args[i].kind = "qualtype" => d.args[i].value.type \in Types
       /\ d.location.type = "macro" =>
            d.location.callers \in Seq(ToSet(d.location.callers)) \ {<<>>}

VARIABLES
  run,       \* the number of the exporter's process
  phase,     \* of the process, and "read" once CMender has taken its result
  early,     \* clang refused the file before the action was executed
  emitted,   \* what clang has handed to the consumer
  counts,    \* the consumer's counters, of each level and of all diagnostics
  info,      \* diagsInfo
  tracked,   \* trackedTypes and trackedQualTypes
  slot,      \* individualDiagsInfos[0]
  output,    \* the output file: what a run wrote, or Null when it is cut off
  reader     \* what DiagExporter.run returned or threw

consumer == <<emitted, counts, info, tracked>>
vars == <<run, phase, early, consumer, slot, output, reader>>

-----------------------------------------------------------------------------
\* BeginInvocation: a diagnostic as clang reports it once the mapping is set.  A
\* severity that is none of those the code knows is taken for "ignored".
BeginInvocation(d) ==
  IF d.id \notin DOMAIN Mapping THEN d
  ELSE IF Mapping[d.id] \in {"remark", "warning", "error", "fatal"}
  THEN [d EXCEPT !.level = Mapping[d.id]]
  ELSE [d EXCEPT !.level = "ignored"]

Reported == {BeginInvocation(d) : d \in Diagnostics}

\* diagLabelIdsTable: one label after the other, category by category; the entries
\* after the last label are empty strings.
Labels[k \in 0..Len(Start)] ==
  IF k = 0 THEN <<>> ELSE Labels[k - 1] \o [n \in 1..Count[k] |-> <<k, n>>]
Table == Labels[Len(Start)]

NumBuiltin(k) == Start[k] + Count[k] + 1

\* Mutant: NUM_BUILTIN is taken for a number of diagnostics.
LabelIndexOffByOne(id) ==
  LET index[k \in Categories] ==
        IF k = 1 THEN id - Start[1] - 1
        ELSE IF id > Start[k]
        THEN index[k - 1] + (NumBuiltin(k - 1) - Start[k - 1]) - (Start[k] - Start[k - 1])
        ELSE index[k - 1]
  IN  index[Len(Start)]

\* The sum of id and offset in getLabelId, category by category.
LabelIndex(id) ==
  LET index[k \in Categories] ==
        IF k = 1 THEN id - Start[1] - 1
        ELSE IF id > Start[k]
        THEN index[k - 1] + (NumBuiltin(k - 1) - Start[k - 1] - 1) - (Start[k] - Start[k - 1])
        ELSE index[k - 1]
  IN  index[Len(Start)]

GetLabelId(id) ==
  LET at == LabelIndex(id) + 1 IN
  IF id >= UpperLimit \/ id <= Start[1] \/ at > UpperLimit THEN Null
  ELSE IF at \in DOMAIN Table THEN Table[at] ELSE <<>>

\* getLocationInfo.  A macro location has the place where the macro is expanded,
\* and the walk from caller to caller puts each spelling in front of the others.
GetLocationInfo(l) ==
  [type |-> l.type,
   place |-> IF l.type = "none" THEN Null ELSE l.place,
   spellingLocs |-> IF l.type = "macro"
                    THEN Reverse(l.callers) ELSE Null]

-----------------------------------------------------------------------------
\* Visit and the Visit* methods, with the types that are tracked: a type that is
\* made of others is tracked after them.  A class without a method is null.
Visit(trackedTypes) ==
  LET json[t \in Types] ==
        IF t \in DOMAIN trackedTypes THEN trackedTypes[t]
        ELSE IF Shape[t].class = "other" THEN Null
        ELSE [class |-> Shape[t].class,
              parts |-> [i \in DOMAIN Shape[t].parts |->
                           LET q == Shape[t].parts[i] IN
                           [spelled |-> q, qual |-> q.qual, type |-> json[q.type]]]]
  IN  json

\* The types that the visit of a type comes to: the smallest set that holds it and
\* what its elements are made of.
Parts[t \in Types] ==
  {p \in Types : \A C \in SUBSET Types : t \in C /\ (\A u \in C : PartTypes(u) \subseteq C) => p \in C}

\* The QualTypes that the conversion of q adds to trackedQualTypes: its own and
\* those its newly visited types are made of.
NewQualTypes(q, known) ==
  {[qual |-> q.qual, type |-> q.type]}
    \cup UNION {Range(Shape[t].parts) : t \in Parts[q.type] \ DOMAIN known.types}

\* Mutant: the lookup in trackedQualTypes, which is commented out in the code.
ConvertQualTypeTracked(q, known) ==
  LET canonical == [qual |-> q.qual, type |-> q.type]
      types == [t \in DOMAIN known.types \cup Parts[q.type] |-> Visit(known.types)[t]]
      json == IF canonical \in DOMAIN known.qualTypes THEN known.qualTypes[canonical]
              ELSE [spelled |-> q.spelled, qual |-> q.qual, type |-> types[q.type]]
  IN  [json |-> json,
       known |-> [types |-> types,
                  qualTypes |-> [c \in DOMAIN known.qualTypes \cup NewQualTypes(q, known) |->
                     IF c = canonical THEN json
                     ELSE IF c \in NewQualTypes(q, known)
                     THEN [spelled |-> c, qual |-> c.qual, type |-> types[c.type]]
                     ELSE known.qualTypes[c]]]]

\* convertQualTypeToJson: the QualType as it is spelled, with the tracked or newly
\* converted canonical type.  trackedQualTypes is written and never read.
ConvertQualType(q, known) ==
  LET canonical == [qual |-> q.qual, type |-> q.type]
      types == [t \in DOMAIN known.types \cup Parts[q.type] |-> Visit(known.types)[t]]
      json == [spelled |-> q.spelled, qual |-> q.qual, type |-> types[q.type]]
  IN  [json |-> json,
       known |-> [types |-> types,
                  qualTypes |-> [c \in DOMAIN known.qualTypes \cup NewQualTypes(q, known) |->
                     IF c = canonical THEN json
                     ELSE IF c \in NewQualTypes(q, known)
                     THEN [spelled |-> c, qual |-> c.qual, type |-> types[c.type]]
                     ELSE known.qualTypes[c]]]]

\* One turn of the loop over the arguments in getDescriptionInfo.  Of the kinds
\* that are no types only what the reader tells apart is kept.
ConvertArg(done, arg) ==
  IF arg.kind = "qualtype"
  THEN LET c == ConvertQualType(arg.value, done.known) IN
       [args |-> Append(done.args, [kind |-> arg.kind, value |-> c.json]), known |-> c.known]
  ELSE [done EXCEPT !.args = Append(@, arg)]

GetDescriptionInfo(d) ==
  LET after[n \in 0..Len(d.args)] ==
        IF n = 0 THEN [args |-> <<>>, known |-> tracked] ELSE ConvertArg(after[n - 1], d.args[n])
  IN  after[Len(d.args)]

-----------------------------------------------------------------------------
NoCounts == [l \in Levels \cup {"total"} |-> 0]
NothingTracked == [types |-> <<>>, qualTypes |-> <<>>]
NewInfo == [file |-> TRUE, counts |-> NoCounts, diags |-> <<>>]
Nothing == [outcome |-> "none", file |-> Null]
Placeholder == [NewInfo EXCEPT !.file = FALSE]

\* main up to the run of the tool; setTotalFiles puts the placeholder into the slot.
StartRun ==
  /\ run' = run + 1
  /\ phase' = "setup"
  /\ early' = FALSE
  /\ emitted' = <<>> /\ counts' = NoCounts /\ info' = NewInfo /\ tracked' = NothingTracked
  /\ slot' = Placeholder
  /\ reader' = Nothing
  /\ UNCHANGED output

Init ==
  /\ run = 1 /\ phase = "setup" /\ early = FALSE
  /\ emitted = <<>> /\ counts = NoCounts /\ info = NewInfo /\ tracked = NothingTracked
  /\ slot = Placeholder
  /\ output = Null
  /\ reader = Nothing

\* Clang refuses the options or cannot open the file, and the value of tool.run is
\* not looked at; or main has ended before, without a severity mapping it can read.
SetupFails ==
  /\ phase = "setup"
  /\ early' = TRUE
  /\ phase' \in {"dump", "failed"}
  /\ UNCHANGED <<run, consumer, slot, output, reader>>

\* The consumer becomes clang's client, with an object of its own for the file.
ExecuteAction ==
  /\ phase = "setup"
  /\ phase' = "parse"
  /\ counts' = NoCounts /\ info' = NewInfo /\ tracked' = NothingTracked
  /\ UNCHANGED <<run, early, emitted, slot, output, reader>>

CanEmit(d) ==
  /\ phase = "parse" /\ d.level # "ignored"
  /\ Len(emitted) < MaxDiags
  /\ \A i \in DOMAIN emitted : emitted[i].level = "fatal" => d.level = "note"

Converted(d, args) ==
  [id |-> d.id, labelId |-> GetLabelId(d.id), level |-> d.level, args |-> args,
   location |-> GetLocationInfo(d.location), utf8 |-> d.utf8]

UpdateDiagnosticCounts(level) == [counts EXCEPT !["total"] = @ + 1, ![level] = @ + 1]

\* Mutant: the counters have no case for fatal errors.
HandleDiagnosticNoFatal(d) ==
  /\ CanEmit(d) /\ d.id < UpperLimit
  /\ emitted' = Append(emitted, d)
  /\ counts' = IF d.level = "fatal" THEN [counts EXCEPT !["total"] = @ + 1]
               ELSE UpdateDiagnosticCounts(d.level)
  /\ LET description == GetDescriptionInfo(d) IN
     /\ info' = [info EXCEPT !.diags = Append(@, Converted(d, description.args))]
     /\ tracked' = description.known
  /\ UNCHANGED <<run, phase, early, slot, output, reader>>

HandleDiagnostic(d) ==
  /\ CanEmit(d) /\ d.id < UpperLimit
  /\ emitted' = Append(emitted, d)
  /\ counts' = UpdateDiagnosticCounts(d.level)
  /\ LET description == GetDescriptionInfo(d) IN
     /\ info' = [info EXCEPT !.diags = Append(@, Converted(d, description.args))]
     /\ tracked' = description.known
  /\ UNCHANGED <<run, phase, early, slot, output, reader>>

\* A diagnostic of no builtin group is counted; then getGroup takes the value of an
\* empty optional, and nothing catches what that throws.
HandleCustomDiagnostic(d) ==
  /\ CanEmit(d) /\ d.id >= UpperLimit
  /\ emitted' = Append(emitted, d)
  /\ counts' = UpdateDiagnosticCounts(d.level)
  /\ phase' = "crashed"
  /\ UNCHANGED <<run, early, info, tracked, slot, output, reader>>

\* Mutant: the counters stay in the consumer.
EndSourceFileUncounted ==
  /\ phase = "parse"
  /\ phase' = "end"
  /\ UNCHANGED <<run, early, consumer, slot, output, reader>>

\* Clang tells its client first that the file has ended, and then the action.
EndSourceFile ==
  /\ phase = "parse"
  /\ phase' = "end"
  /\ info' = [info EXCEPT !.counts = counts]
  /\ UNCHANGED <<run, early, emitted, counts, tracked, slot, output, reader>>

EndSourceFileAction ==
  /\ phase = "end"
  /\ phase' = "dump"
  /\ slot' = info
  /\ UNCHANGED <<run, early, consumer, output, reader>>

\* main after the run of the tool.  The directory or the file may not be had; the
\* file is opened, and emptied, before the text is made; a failed write is not
\* noticed.
Dump ==
  /\ phase = "dump"
  /\ \/ phase' = "failed" /\ UNCHANGED output
     \/ /\ \E i \in DOMAIN slot.diags : ~slot.diags[i].utf8
        /\ phase' = "crashed" /\ output' = Null
     \/ /\ \A i \in DOMAIN slot.diags : slot.diags[i].utf8
        /\ phase' = "exited"
        /\ output' \in {[run |-> run, result |-> slot], Null}
  /\ UNCHANGED <<run, early, consumer, slot, reader>>

-----------------------------------------------------------------------------
\* Every class of types has a record in the reader, but not every builtin kind.
TypeJsons == {Visit(<<>>)[t] : t \in Types}
ReadsType[j \in TypeJsons] ==
  j # Null =>
    /\ j.class # "builtin of another language"
    /\ \A i \in DOMAIN j.parts : ReadsType[j.parts[i].type]

\* The records that Jackson fills: an int has IntWidth bits where the exporter
\* writes 64, and a DeclContext is a record or null.
ReadsArg(arg) ==
  /\ arg.kind = "qualtype" => ReadsType[arg.value.type]
  /\ arg.kind = "integer" => arg.value \in -(2^(IntWidth - 1))..(2^(IntWidth - 1) - 1)
  /\ arg.kind = "decl_context" => arg.value \in {"record", "null"}

Reads(file) ==
  /\ file # Null
  /\ \A i \in DOMAIN file.result.diags : \A j \in DOMAIN file.result.diags[i].args :
       ReadsArg(file.result.diags[i].args[j])

\* Mutant: the output file is read whatever the exit code.
RunReadsAlways ==
  /\ phase \in {"failed", "crashed", "exited"}
  /\ reader' = IF Reads(output) THEN [outcome |-> "result", file |-> output]
               ELSE [outcome |-> "unreadable", file |-> Null]
  /\ phase' = "read"
  /\ UNCHANGED <<run, early, consumer, slot, output>>

\* The end of DiagExporter.run: an exit code other than 0 is an exception, and so
\* is a file that cannot be read, as a whole, into the records.
Run ==
  /\ phase \in {"failed", "crashed", "exited"}
  /\ \/ /\ phase # "exited"
        /\ reader' = [outcome |-> "exporter failed", file |-> Null]
     \/ /\ phase = "exited" /\ Reads(output)
        /\ reader' = [outcome |-> "result", file |-> output]
     \/ /\ phase = "exited" /\ ~Reads(output)
        /\ reader' = [outcome |-> "unreadable", file |-> Null]
  /\ phase' = "read"
  /\ UNCHANGED <<run, early, consumer, slot, output>>

Returned == phase = "read" /\ reader.outcome = "result"

HasErrorsOrFatals(result) == result.counts["error"] > 0 \/ result.counts["fatal"] > 0

\* The next iteration of the mending loop; without errors, or with an exception,
\* there is none.
NextIteration ==
  /\ Returned /\ HasErrorsOrFatals(reader.file.result)
  /\ run < MaxRuns
  /\ StartRun

Ended ==
  /\ phase = "read"
  /\ ~(Returned /\ run < MaxRuns /\ HasErrorsOrFatals(reader.file.result))
  /\ UNCHANGED vars

Next == \/ SetupFails \/ ExecuteAction \/ EndSourceFile \/ EndSourceFileAction
        \/ \E d \in Reported : HandleDiagnostic(d) \/ HandleCustomDiagnostic(d)
        \/ Dump \/ Run \/ NextIteration \/ Ended

Spec == Init /\ [][Next]_vars

-----------------------------------------------------------------------------
IsErrorOrFatal(d) == d.level \in {"error", "fatal"}

\* What checkTermination relies on and asserts: the counters say that there are
\* errors exactly if a first error is found among the diagnostics, and the total
\* is the number of diagnostics, though clang copies the ones and hands over the
\* others at different times.
CountsTell ==
  Returned =>
    LET result == reader.file.result IN
    /\ HasErrorsOrFatals(result) <=> \E i \in DOMAIN result.diags : IsErrorOrFatal(result.diags[i])
    /\ result.counts["total"] = Len(result.diags)

\* A result that has a file and no errors ends the mending with success: clang has
\* then accepted the file in this very run.
CleanMeansCompiles ==
  (Returned /\ reader.file.result.file /\ ~HasErrorsOrFatals(reader.file.result))
    => ~early /\ \A i \in DOMAIN emitted : ~IsErrorOrFatal(emitted[i])

\* What is read was written by the process that has just ended: the diagnostics of
\* an earlier iteration, left in the file by a run that failed, are never taken
\* for those of the current one.
ResultOfThisRun == Returned => reader.file.run = run

\* The diagnostics come in clang's order, which decides what is mended first, with
\* the label of the id and with the spelling of the token itself last.
DiagsAsReported ==
  Returned /\ ~early =>
    /\ Len(reader.file.result.diags) = Len(emitted)
    /\ \A i \in DOMAIN emitted :
         LET d == emitted[i]
             j == reader.file.result.diags[i]
         IN  /\ \E k \in Categories, n \in 1..UpperLimit :
                  d.id = Start[k] + n /\ n <= Count[k] /\ j.labelId = <<k, n>>
             /\ d.location.type = "macro" =>
                  Last(j.location.spellingLocs) = Head(d.location.callers)

\* A type is reported as it would be if it were the first one: with the alias it
\* is spelled with here, whatever the caches have seen of it before.
TypesAsFresh ==
  Returned /\ ~early =>
    \A i \in DOMAIN emitted : \A a \in DOMAIN emitted[i].args :
      emitted[i].args[a].kind = "qualtype" =>
        reader.file.result.diags[i].args[a].value
          = ConvertQualType(emitted[i].args[a].value, NothingTracked).json
=============================================================================
