------------------------ MODULE ExporterReport_proofs ------------------------
(***************************************************************************)
(* Proofs about ExporterReport, for every layout of the diagnostic ids,    *)
(* every set of types and diagnostics, and any number of runs.             *)
(***************************************************************************)
EXTENDS ExporterReport, SequenceTheorems, WellFoundedInduction, TLAPS

\* The counter of the level of everything that clang has handed over is positive.
CountsCover ==
  /\ counts \in [Levels \cup {"total"} -> Nat]
  /\ \A i \in 1..Len(emitted) : emitted[i].level \in Levels /\ counts[emitted[i].level] > 0

\* The counters c tell of the converted diagnostics ds: which levels there are, and
\* how many diagnostics.
Tells(c, ds) ==
  /\ \E S : ds \in Seq(S)
  /\ c["total"] = Len(ds)
  /\ \A l \in Levels : c[l] > 0 <=> \E i \in 1..Len(ds) : ds[i].level = l

\* Where the numbers are at each phase: in the counters, then in the consumer's
\* object, then in the slot, then in the output file, then with the reader.
ReportInv ==
  /\ run \in Nat
  /\ emitted \in Seq(Reported)
  /\ CountsCover
  /\ phase \in {"setup", "parse", "end"} => ~early /\ ~slot.file
  /\ phase = "setup" => emitted = <<>>
  /\ {"file", "counts", "diags"} \subseteq DOMAIN info
  /\ phase \in {"parse", "end"} => Tells(counts, info.diags)
  /\ Tells(slot.counts, slot.diags)
  /\ phase = "end" => info.counts = counts
  /\ phase \in {"dump", "failed", "crashed", "exited", "read"} /\ slot.file =>
       ~early /\ slot.counts = counts
  /\ phase = "exited" /\ output # Null => output.run = run /\ output.result = slot
  /\ phase = "read" /\ reader.outcome = "result" =>
       reader.file.run = run /\ reader.file.result = slot

\* Clang reports diagnostics of the levels that the consumer counts.
LEMMA ReportedLevels == \A d \in Reported : d.level \in Levels
<1> SUFFICES ASSUME NEW e \in Diagnostics
             PROVE  BeginInvocation(e).level \in Levels
  BY DEF Reported
<1>1. "level" \in DOMAIN e /\ e.level \in Levels
  BY DiagnosticsAssumption
<1>2. \A x : [e EXCEPT !.level = x].level = x
  BY <1>1
<1>3. QED
  BY <1>1, <1>2 DEF BeginInvocation, Levels

-----------------------------------------------------------------------------
\* The counters of a new consumer.
LEMMA NewConsumer ==
  /\ NoCounts \in [Levels \cup {"total"} -> Nat]
  /\ {"file", "counts", "diags"} \subseteq DOMAIN NewInfo
  /\ ~Placeholder.file
  /\ Tells(NoCounts, NewInfo.diags)
  /\ Tells(Placeholder.counts, Placeholder.diags)
<1>1. /\ NewInfo.counts = NoCounts /\ NewInfo.diags = <<>> /\ ~Placeholder.file
      /\ Placeholder.counts = NoCounts /\ Placeholder.diags = <<>>
      /\ {"file", "counts", "diags"} \subseteq DOMAIN NewInfo
  BY DEF NewInfo, Placeholder
<1>2. /\ NoCounts \in [Levels \cup {"total"} -> Nat] /\ NoCounts["total"] = 0
      /\ \A l \in Levels : NoCounts[l] = 0
  BY DEF NoCounts
<1>3. <<>> \in Seq({}) /\ Len(<<>>) = 0
  OBVIOUS
<1>4. Tells(NoCounts, <<>>)
  BY <1>2, <1>3 DEF Tells
<1>5. QED
  BY <1>1, <1>2, <1>4

\* updateDiagnosticCounts.
LEMMA UpdateFacts ==
  ASSUME counts \in [Levels \cup {"total"} -> Nat], NEW level \in Levels
  PROVE  LET c == UpdateDiagnosticCounts(level) IN
         /\ c \in [Levels \cup {"total"} -> Nat]
         /\ c["total"] = counts["total"] + 1
         /\ c[level] = counts[level] + 1
         /\ \A l \in Levels : l # level => c[l] = counts[l]
  BY DEF UpdateDiagnosticCounts, Levels

\* One diagnostic is counted.
LEMMA CountStep ==
  ASSUME ReportInv, NEW d \in Reported, emitted' = Append(emitted, d),
         counts' = UpdateDiagnosticCounts(d.level)
  PROVE  CountsCover' /\ emitted' \in Seq(Reported)
<1>2. d.level \in Levels
  BY ReportedLevels
<1>3. /\ emitted \in Seq(Reported) /\ counts \in [Levels \cup {"total"} -> Nat]
      /\ Len(emitted) \in Nat
      /\ \A i \in 1..Len(emitted) : emitted[i].level \in Levels /\ counts[emitted[i].level] > 0
  BY DEF ReportInv, CountsCover
<1>4. /\ counts' \in [Levels \cup {"total"} -> Nat] /\ counts'[d.level] > 0
      /\ \A l \in Levels : counts[l] > 0 => counts'[l] > 0
  <2>1. /\ counts' \in [Levels \cup {"total"} -> Nat]
        /\ counts'[d.level] = counts[d.level] + 1
        /\ \A l \in Levels : l # d.level => counts'[l] = counts[l]
    BY <1>2, <1>3, UpdateFacts
  <2>2. counts[d.level] \in Nat
    BY <1>2, <1>3
  <2>3. QED
    BY ONLY <2>1, <2>2
<1>5. /\ emitted' \in Seq(Reported)
      /\ Len(emitted') = Len(emitted) + 1
      /\ \A i \in 1..Len(emitted') : \/ i \in 1..Len(emitted) /\ emitted'[i] = emitted[i]
                                     \/ emitted'[i] = d
  BY <1>3
<1>6. \A i \in 1..Len(emitted') : emitted'[i].level \in Levels /\ counts'[emitted'[i].level] > 0
  BY <1>2, <1>3, <1>4, <1>5
<1>7. QED
  BY <1>4, <1>5, <1>6 DEF CountsCover

\* One diagnostic is counted and converted.
LEMMA TellsStep ==
  ASSUME NEW ds, Tells(counts, ds), counts \in [Levels \cup {"total"} -> Nat],
         NEW d, d.level \in Levels
  PROVE  Tells(UpdateDiagnosticCounts(d.level), Append(ds, d))
<1> DEFINE c == UpdateDiagnosticCounts(d.level)
           es == Append(ds, d)
<1>1. /\ c["total"] = counts["total"] + 1
      /\ c[d.level] = counts[d.level] + 1 /\ counts[d.level] \in Nat
      /\ \A l \in Levels : l # d.level => c[l] = counts[l]
  BY UpdateFacts
<1>2. PICK S : ds \in Seq(S)
  BY DEF Tells
<1>3. ds \in Seq(S \cup {d})
  BY <1>2
<1>4. /\ es \in Seq(S \cup {d}) /\ Len(es) = Len(ds) + 1 /\ Len(ds) \in Nat
      /\ es[Len(es)] = d
      /\ \A i \in 1..Len(ds) : es[i] = ds[i]
  BY <1>3
<1> HIDE DEF c, es
<1>5. c["total"] = Len(es)
  BY <1>1, <1>4 DEF Tells
<1>6. ASSUME NEW l \in Levels PROVE c[l] > 0 <=> \E i \in 1..Len(es) : es[i].level = l
  <2>1. CASE l = d.level
    BY <1>1, <1>4, <2>1
  <2>2. CASE l # d.level
    <3>1. c[l] > 0 <=> \E i \in 1..Len(ds) : ds[i].level = l
      BY <1>1, <2>2 DEF Tells
    <3>2. \A i \in 1..Len(es) : i \in 1..Len(ds) \/ i = Len(es)
      BY <1>4
    <3>3. \A i \in 1..Len(ds) : i \in 1..Len(es)
      BY <1>4
    <3>4. QED
      BY <1>4, <2>2, <3>1, <3>2, <3>3
  <2>3. QED
    BY <2>1, <2>2
<1>7. QED
  BY <1>4, <1>5, <1>6 DEF Tells, c, es

\* One diagnostic is counted and handed on, or ends the process.
LEMMA DiagnosticStep ==
  ASSUME ReportInv, NEW d \in Reported, HandleDiagnostic(d) \/ HandleCustomDiagnostic(d)
  PROVE  ReportInv'
<1>1. /\ phase = "parse" /\ phase' \in {"parse", "crashed"}
      /\ run' = run /\ early' = early /\ slot' = slot
      /\ emitted' = Append(emitted, d)
      /\ counts' = UpdateDiagnosticCounts(d.level)
      /\ \/ info' = info /\ phase' = "crashed"
         \/ \E a : info' = [info EXCEPT !.diags = Append(@, Converted(d, a))]
  BY DEF HandleDiagnostic, HandleCustomDiagnostic, CanEmit
<1>2. CountsCover' /\ emitted' \in Seq(Reported)
  BY <1>1, CountStep
<1>3. {"file", "counts", "diags"} \subseteq DOMAIN info'
  BY <1>1 DEF ReportInv
<1>4. phase = "parse" /\ phase' \in {"parse", "crashed"} /\ UNCHANGED <<run, early, slot>>
  BY <1>1
<1>5. phase' = "parse" => Tells(counts', info'.diags)
  <2> SUFFICES ASSUME NEW a, info' = [info EXCEPT !.diags = Append(@, Converted(d, a))]
               PROVE  Tells(counts', info'.diags)
    BY <1>1
  <2>1. info'.diags = Append(info.diags, Converted(d, a))
    BY DEF ReportInv
  <2>2. Converted(d, a).level = d.level
    BY DEF Converted
  <2>3. Converted(d, a).level \in Levels
    BY <2>2, ReportedLevels
  <2>4. Tells(counts, info.diags) /\ counts \in [Levels \cup {"total"} -> Nat]
    BY <1>1 DEF ReportInv, CountsCover
  <2> HIDE DEF Converted
  <2>5. QED
    BY <1>1, <2>1, <2>2, <2>3, <2>4, TellsStep
<1>6. QED
  BY <1>2, <1>3, <1>4, <1>5 DEF ReportInv

\* The counters go into the consumer's object.
LEMMA EndStep ==
  ASSUME ReportInv, EndSourceFile
  PROVE  ReportInv'
<1>1. /\ phase = "parse" /\ phase' = "end"
      /\ UNCHANGED <<run, early, emitted, counts, slot>>
      /\ info' = [info EXCEPT !.counts = counts]
  BY DEF EndSourceFile
<1>2. {"file", "counts", "diags"} \subseteq DOMAIN info'
  BY <1>1 DEF ReportInv
<1>3. info'.counts = counts /\ info'.diags = info.diags
  BY <1>1 DEF ReportInv
<1>4. CountsCover'
  BY <1>1 DEF ReportInv, CountsCover
<1>5. QED
  BY <1>1, <1>2, <1>3, <1>4 DEF ReportInv

\* Every other step moves the numbers on, or starts anew.
LEMMA ReportStep ==
  ASSUME ReportInv, [Next]_vars
  PROVE  ReportInv'
<1>1. CASE SetupFails
  <2>1. CountsCover'
    BY <1>1 DEF SetupFails, consumer, ReportInv, CountsCover
  <2>2. ~slot'.file
    BY <1>1 DEF SetupFails, ReportInv
  <2>3. QED
    BY <1>1, <2>1, <2>2 DEF SetupFails, consumer, ReportInv
<1>2. CASE ExecuteAction
  BY <1>2, NewConsumer DEF ExecuteAction, ReportInv, CountsCover
<1>3. CASE EndSourceFileAction
  BY <1>3 DEF EndSourceFileAction, consumer, ReportInv, CountsCover
<1>4. CASE Dump
  <2>1. CountsCover'
    BY <1>4 DEF Dump, consumer, ReportInv, CountsCover
  <2>2. /\ phase = "dump" /\ phase' \in {"failed", "crashed", "exited"}
        /\ UNCHANGED <<run, early, consumer, slot>>
    BY <1>4 DEF Dump
  <2>3. phase' = "exited" /\ output' # Null => output' = [run |-> run, result |-> slot]
    BY <1>4 DEF Dump
  <2>4. phase' = "exited" /\ output' # Null => output'.run = run /\ output'.result = slot
    BY <2>3
  <2>5. QED
    BY <2>1, <2>2, <2>4 DEF consumer, ReportInv
<1>5. CASE Run
  <2>1. CountsCover'
    BY <1>5 DEF Run, consumer, ReportInv, CountsCover
  <2>2. /\ phase \in {"failed", "crashed", "exited"} /\ phase' = "read"
        /\ UNCHANGED <<run, early, consumer, slot>>
    BY <1>5 DEF Run
  <2>3. reader'.outcome = "result" =>
          phase = "exited" /\ output # Null /\ reader'.file = output
    <3>1. \/ reader' = [outcome |-> "exporter failed", file |-> Null]
          \/ reader' = [outcome |-> "unreadable", file |-> Null]
          \/ phase = "exited" /\ Reads(output) /\ reader' = [outcome |-> "result", file |-> output]
      BY <1>5 DEF Run
    <3>2. \/ reader'.outcome \in {"exporter failed", "unreadable"}
          \/ phase = "exited" /\ Reads(output) /\ reader'.file = output
      <4>1. CASE reader' = [outcome |-> "exporter failed", file |-> Null]
        BY <4>1
      <4>2. CASE reader' = [outcome |-> "unreadable", file |-> Null]
        BY <4>2
      <4>3. CASE /\ phase = "exited" /\ Reads(output)
                 /\ reader' = [outcome |-> "result", file |-> output]
        <5>1. reader'.file = output
          BY <4>3
        <5>2. QED
          BY <4>3, <5>1, Zenon
      <4>4. QED
        BY <3>1, <4>1, <4>2, <4>3, Zenon
    <3>3. Reads(output) => output # Null
      BY Zenon DEF Reads
    <3>4. QED
      BY <3>2, <3>3
  <2>4. QED
    BY <2>1, <2>2, <2>3 DEF consumer, ReportInv
<1>6. CASE NextIteration
  <2>1. /\ run' = run + 1 /\ phase' = "setup" /\ early' = FALSE /\ emitted' = <<>>
        /\ counts' = NoCounts /\ info' = NewInfo /\ slot' = Placeholder
    BY <1>6 DEF NextIteration, StartRun
  <2>2. CountsCover'
    BY <2>1, NewConsumer DEF CountsCover
  <2>3. QED
    BY <2>1, <2>2, NewConsumer DEF ReportInv
<1>7. CASE Ended \/ UNCHANGED vars
  BY <1>7 DEF Ended, vars, consumer, ReportInv, CountsCover
<1>8. QED
  BY <1>1, <1>2, <1>3, <1>4, <1>5, <1>6, <1>7, DiagnosticStep, EndStep DEF Next

\* The inductive invariant of the report.
LEMMA ReportInductive == Spec => []ReportInv
<1>1. Init => ReportInv
  BY NewConsumer DEF Init, ReportInv, CountsCover
<1>2. ReportInv /\ [Next]_vars => ReportInv'
  BY ReportStep
<1>3. QED
  BY <1>1, <1>2, PTL DEF Spec

\* DiagExporter.run never returns what an earlier process wrote.
THEOREM ReadsOwnRun == Spec => []ResultOfThisRun
<1>1. ReportInv => ResultOfThisRun
  BY DEF ReportInv, ResultOfThisRun, Returned
<1>2. QED
  BY <1>1, ReportInductive, PTL

\* A result without errors, on which the mending ends with success, is one of a
\* file that clang accepted in this very run.
THEOREM CleanIsCompiled == Spec => []CleanMeansCompiles
<1>1. ReportInv => CleanMeansCompiles
  <2> SUFFICES ASSUME ReportInv, Returned, reader.file.result.file,
                      ~HasErrorsOrFatals(reader.file.result)
               PROVE  ~early /\ \A i \in DOMAIN emitted : ~IsErrorOrFatal(emitted[i])
    BY DEF CleanMeansCompiles
  <2>1. reader.file.result = slot /\ phase = "read"
    BY DEF ReportInv, Returned
  <2>2. ~early /\ slot.counts = counts
    BY <2>1 DEF ReportInv
  <2>3. ~(counts["error"] > 0) /\ ~(counts["fatal"] > 0)
    BY <2>1, <2>2 DEF HasErrorsOrFatals
  <2>4. DOMAIN emitted = 1..Len(emitted) /\ CountsCover
    BY DEF ReportInv
  <2>5. ASSUME NEW i \in 1..Len(emitted) PROVE ~IsErrorOrFatal(emitted[i])
    BY <2>3, <2>4 DEF CountsCover, IsErrorOrFatal
  <2>6. QED
    BY <2>2, <2>4, <2>5
<1>2. QED
  BY <1>1, ReportInductive, PTL

\* checkTermination can rely on the counters of a result: they are positive for
\* errors exactly if there is an error among its diagnostics, and the total is
\* their number.
THEOREM CountersTell == Spec => []CountsTell
<1>1. ReportInv => CountsTell
  <2> SUFFICES ASSUME ReportInv, Returned
               PROVE  /\ HasErrorsOrFatals(slot) <=> \E i \in DOMAIN slot.diags : IsErrorOrFatal(slot.diags[i])
                      /\ slot.counts["total"] = Len(slot.diags)
    BY DEF CountsTell, ReportInv, Returned
  <2>1. Tells(slot.counts, slot.diags)
    BY DEF ReportInv
  <2>2. DOMAIN slot.diags = 1..Len(slot.diags)
    BY <2>1 DEF Tells
  <2>3. /\ slot.counts["error"] > 0 <=> \E i \in DOMAIN slot.diags : slot.diags[i].level = "error"
        /\ slot.counts["fatal"] > 0 <=> \E i \in DOMAIN slot.diags : slot.diags[i].level = "fatal"
    BY <2>1, <2>2 DEF Tells, Levels
  <2>4. QED
    BY <2>1, <2>3 DEF HasErrorsOrFatals, IsErrorOrFatal, Tells
<1>2. QED
  BY <1>1, ReportInductive, PTL

-----------------------------------------------------------------------------
\* Induction up to n: a set that has 0 and the successor of each of its numbers
\* below n has all of them.
LEMMA UpToInduction ==
  ASSUME NEW n \in Nat, NEW K, 0 \in K, \A k \in 0..n : k \in K /\ k < n => k + 1 \in K
  PROVE  \A k \in 0..n : k \in K
<1> DEFINE R == OpToRel(<, Nat)
           T == {k \in 0..n : k \notin K}
<1> SUFFICES ASSUME T # {} PROVE FALSE
  OBVIOUS
<1>1. IsWellFoundedOn(R, Nat)
  BY NatLessThanWellFounded
<1>2. T \subseteq Nat
  OBVIOUS
<1>3. PICK x \in T : \A y \in T : ~(<<y, x>> \in R)
  <2> HIDE DEF R, T
  <2>1. QED
    BY <1>1, <1>2, WFMin
<1>4. x \in 0..n /\ x \notin K /\ x # 0
  OBVIOUS
<1>5. x - 1 \in 0..n /\ x - 1 < n /\ x - 1 \in Nat /\ x \in Nat /\ (x - 1) + 1 = x
  BY <1>4
<1>6. x - 1 \notin K
  BY <1>4, <1>5
<1>7. <<x - 1, x>> \in R
  BY <1>5 DEF OpToRel
<1>8. QED
  BY <1>3, <1>5, <1>6, <1>7

\* Some function starts with v at 0 and goes on with G up to N.
Iterates(N, V, v, G) ==
  \E u \in [0..N -> V] : u[0] = v /\ \A n \in 1..N : u[n] = G[n][u[n - 1]]

LEMMA Iteration ==
  ASSUME NEW N \in Nat, NEW V, NEW v \in V, NEW G \in [1..N -> [V -> V]]
  PROVE  Iterates(N, V, v, G)
<1> DEFINE K == {k \in 0..N : \E u \in [0..N -> V] :
                                u[0] = v /\ \A n \in 1..k : u[n] = G[n][u[n - 1]]}
<1>1. 0 \in K
  <2> DEFINE z == [n \in 0..N |-> v]
  <2>1. z \in [0..N -> V] /\ z[0] = v /\ 0 \in 0..N /\ 1..0 = {}
    OBVIOUS
  <2>2. QED
    BY <2>1
<1>2. ASSUME NEW k \in 0..N, k \in K, k < N PROVE k + 1 \in K
  <2>1. PICK u \in [0..N -> V] : u[0] = v /\ \A n \in 1..k : u[n] = G[n][u[n - 1]]
    BY <1>2
  <2>2. /\ k \in Nat /\ k + 1 \in 0..N /\ k + 1 \in 1..N /\ k + 1 # 0
        /\ \A n \in 1..(k + 1) : (n \in 1..k \/ n = k + 1) /\ n \in 0..N /\ n - 1 \in 0..N /\ n - 1 # k + 1
        /\ \A n \in 1..k : n # k + 1
    BY <1>2
  <2>x. G[k + 1][u[k]] \in V
    BY <2>2
  <2> DEFINE w == [u EXCEPT ![k + 1] = G[k + 1][u[k]]]
  <2>3. w \in [0..N -> V]
    BY <2>2, <2>x
  <2>4. w[k + 1] = G[k + 1][u[k]] /\ \A n \in 0..N : n # k + 1 => w[n] = u[n]
    BY <2>2
  <2> HIDE DEF w
  <2>5. w[0] = v
    BY <2>1, <2>2, <2>4
  <2>6. ASSUME NEW n \in 1..(k + 1) PROVE w[n] = G[n][w[n - 1]]
    <3>1. w[n - 1] = u[n - 1]
      BY <2>2, <2>4
    <3>2. CASE n \in 1..k
      BY <2>1, <2>2, <2>4, <3>1, <3>2
    <3>3. CASE n = k + 1
      <4>1. n - 1 = k
        BY <2>2, <3>3
      <4>2. QED
        BY <2>4, <3>1, <3>3, <4>1
    <3>4. QED
      BY <2>2, <3>2, <3>3
  <2>7. QED
    BY <2>2, <2>3, <2>5, <2>6
<1>3. N \in K
  <2> HIDE DEF K
  <2>1. \A k \in 0..N : k \in K
    BY <1>1, <1>2, UpToInduction
  <2>2. QED
    BY <2>1
<1>4. QED
  BY <1>3 DEF Iterates

-----------------------------------------------------------------------------
\* The layout of the ids, as numbers.
LEMMA Layout ==
  /\ Len(Start) \in Nat \ {0} /\ Categories = 1..Len(Start) /\ UpperLimit \in Nat
  /\ \A k \in Categories : Start[k] \in Nat /\ Count[k] \in Nat
  /\ Start[1] = 0
  /\ \A k \in Categories : k + 1 \in Categories => Start[k] + Count[k] < Start[k + 1]
  /\ Start[Len(Start)] + Count[Len(Start)] < UpperLimit
<1>1. /\ Start \in Seq(Nat) /\ Count \in Seq(Nat) /\ Len(Count) = Len(Start) /\ Start # <<>>
      /\ UpperLimit \in Nat /\ Start[1] = 0
      /\ \A k \in Categories :
           Start[k] + Count[k] < IF k = Len(Start) THEN UpperLimit ELSE Start[k + 1]
  BY LayoutAssumption
<1>2. Len(Start) \in Nat /\ Len(Start) # 0
  BY <1>1, EmptySeq, LenProperties
<1>3. Categories = 1..Len(Start)
  BY DEF Categories
<1>4. \A k \in Categories : Start[k] \in Nat /\ Count[k] \in Nat
  BY <1>1, <1>2, <1>3, ElementOfSeq
<1>5. \A k \in Categories : k + 1 \in Categories => k # Len(Start)
  BY <1>2, <1>3
<1>6. Len(Start) \in Categories
  BY <1>2, <1>3
<1>7. QED
  BY <1>1, <1>2, <1>3, <1>4, <1>5, <1>6

\* The categories do not overlap.
LEMMA CategoriesApart ==
  \A j, k \in Categories : k < j => Start[k] + Count[k] < Start[j]
<1> DEFINE L == Len(Start)
           K == {j \in 0..L : \A k \in Categories : k < j => Start[k] + Count[k] < Start[j]}
<1>1. L \in Nat /\ Categories = 1..L
  BY Layout
<1>2. 0 \in K
  BY <1>1
<1>3. ASSUME NEW j \in 0..L, j \in K, j < L PROVE j + 1 \in K
  <2>1. j + 1 \in 0..L /\ j + 1 \in Categories
    BY <1>1, <1>3
  <2>2. ASSUME NEW k \in Categories, k < j + 1 PROVE Start[k] + Count[k] < Start[j + 1]
    <3>1. j \in Categories /\ (k < j \/ k = j)
      BY <1>1, <2>2
    <3>2. Start[j] + Count[j] < Start[j + 1]
      BY <2>1, <3>1, Layout
    <3>3. k < j => Start[k] + Count[k] < Start[j]
      BY <1>3
    <3>4. CASE k = j
      BY <3>2, <3>4
    <3>5. CASE k < j
      <4> DEFINE end == Start[k] + Count[k]
                 start == Start[j]
                 count == Count[j]
                 next == Start[j + 1]
      <4>1. Start[k] \in Nat /\ Count[k] \in Nat /\ start \in Nat /\ count \in Nat /\ next \in Nat
        BY <2>1, <3>1, Layout
      <4>2. end \in Nat
        BY <4>1
      <4>3. end < start /\ start + count < next
        BY <3>2, <3>3, <3>5
      <4> HIDE DEF end, start, count, next
      <4>4. end < next
        BY <4>1, <4>2, <4>3
      <4>5. QED
        BY <4>4 DEF end, next
    <3>6. QED
      BY <3>1, <3>4, <3>5
  <2>3. QED
    BY <2>1, <2>2
<1>4. \A j \in 0..L : j \in K
  <2> HIDE DEF K, L
  <2>1. QED
    BY <1>1, <1>2, <1>3, UpToInduction
<1>5. QED
  BY <1>1, <1>4

\* The labels of category k in the table.
LabelsOf(k) == [n \in 1..Count[k] |-> <<k, n>>]

LEMMA LabelsOfFacts ==
  ASSUME NEW k \in Categories
  PROVE  /\ LabelsOf(k) \in Seq(Categories \X Nat)
         /\ Len(LabelsOf(k)) = Count[k]
         /\ \A n \in 1..Count[k] : LabelsOf(k)[n] = <<k, n>>
<1>1. Count[k] \in Nat
  BY Layout
<1>2. LabelsOf(k) \in [1..Count[k] -> Categories \X Nat]
  BY <1>1 DEF LabelsOf
<1>3. LabelsOf(k) \in Seq(Categories \X Nat)
  BY <1>1, <1>2
<1>4. QED
  BY <1>1, <1>2, <1>3 DEF LabelsOf

\* The table up to each category.
LEMMA LabelsFacts ==
  /\ Labels \in [0..Len(Start) -> Seq(Categories \X Nat)]
  /\ Labels[0] = <<>>
  /\ \A k \in Categories : Labels[k] = Labels[k - 1] \o LabelsOf(k)
<1> DEFINE L == Len(Start)
           V == Seq(Categories \X Nat)
           v == <<>>
           G == [k \in 1..L |-> [s \in V |-> s \o LabelsOf(k)]]
           Is(f) == f = [k \in 0..Len(Start) |-> IF k = 0 THEN <<>>
                           ELSE f[k - 1] \o [n \in 1..Count[k] |-> <<k, n>>]]
<1>1. L \in Nat /\ Categories = 1..L /\ v \in V
  BY Layout, EmptySeq
<1>2. G \in [1..L -> [V -> V]]
  BY <1>1, LabelsOfFacts, ConcatProperties
<1>3. PICK u \in [0..L -> V] : u[0] = v /\ \A k \in 1..L : u[k] = G[k][u[k - 1]]
  <2> HIDE DEF G, V, L, v
  <2>1. Iterates(L, V, v, G)
    BY <1>1, <1>2, Iteration
  <2>2. QED
    BY <2>1 DEF Iterates
<1>4. ASSUME NEW k \in 1..L PROVE u[k - 1] \in V /\ u[k] = u[k - 1] \o LabelsOf(k)
  <2>1. k - 1 \in 0..L
    BY <1>1
  <2>2. u[k - 1] \in V
    BY <1>3, <2>1
  <2>3. \A s \in V : G[k][s] = s \o LabelsOf(k)
    OBVIOUS
  <2>4. QED
    BY <1>3, <2>2, <2>3
<1>5. Is(u)
  <2>1. \A k \in 0..L : u[k] = IF k = 0 THEN <<>> ELSE u[k - 1] \o LabelsOf(k)
    BY <1>1, <1>3, <1>4
  <2>2. u = [k \in 0..L |-> IF k = 0 THEN <<>> ELSE u[k - 1] \o LabelsOf(k)]
    BY <2>1
  <2>3. QED
    BY <2>2 DEF LabelsOf
<1>6. Is(Labels)
  <2>1. Labels = CHOOSE f : Is(f)
    BY DEF Labels
  <2>2. QED
    BY <1>5, <2>1
<1>7. \A k \in 0..L : Labels[k] = IF k = 0 THEN <<>> ELSE Labels[k - 1] \o LabelsOf(k)
  BY <1>6 DEF LabelsOf
<1>8. Labels[0] = <<>> /\ \A k \in Categories : Labels[k] = Labels[k - 1] \o LabelsOf(k)
  <2>1. 0 \in 0..L /\ \A k \in Categories : k \in 0..L /\ k # 0
    BY <1>1
  <2>2. QED
    BY <1>7, <2>1
<1>9. Labels \in [0..L -> V]
  <2> DEFINE K == {k \in 0..L : Labels[k] \in V}
  <2>1. 0 \in K
    <3>1. 0 \in 0..L /\ Labels[0] \in V
      BY <1>1, <1>8
    <3>2. QED
      BY <3>1
  <2>2. ASSUME NEW k \in 0..L, k \in K, k < L PROVE k + 1 \in K
    <3>1. k + 1 \in Categories /\ k + 1 \in 0..L /\ (k + 1) - 1 = k
      BY <1>1, <2>2
    <3>2. Labels[k + 1] = Labels[k] \o LabelsOf(k + 1)
      BY <1>8, <3>1
    <3>3. Labels[k] \in V /\ LabelsOf(k + 1) \in V
      BY <2>2, <3>1, LabelsOfFacts
    <3>4. QED
      BY <3>1, <3>2, <3>3, ConcatProperties
  <2>3. \A k \in 0..L : k \in K
    <3> HIDE DEF K, L
    <3>1. QED
      BY <1>1, <2>1, <2>2, UpToInduction
  <2>4. \A k \in 0..L : Labels[k] \in V
    BY <2>3
  <2>5. DOMAIN Labels = 0..L /\ Labels = [k \in 0..L |-> Labels[k]]
    BY <1>6
  <2>6. QED
    BY <2>4, <2>5
<1>10. QED
  BY <1>8, <1>9

\* Where the labels of a category begin.
Offset(k) == Len(Labels[k - 1])

LEMMA OffsetFacts ==
  /\ \A k \in Categories : Offset(k) \in Nat /\ Offset(k) <= Start[k]
  /\ Offset(1) = 0
  /\ \A k \in Categories : k + 1 \in Categories => Offset(k + 1) = Offset(k) + Count[k]
<1> DEFINE L == Len(Start)
           V == Seq(Categories \X Nat)
           K == {k \in 0..L : k \in Categories => Offset(k) <= Start[k]}
<1>1. L \in Nat \ {0} /\ Categories = 1..L
  BY Layout
<1>2. ASSUME NEW k \in Categories PROVE Labels[k - 1] \in V /\ Offset(k) \in Nat
  <2>1. k - 1 \in 0..L
    BY <1>1
  <2>2. Labels[k - 1] \in V
    BY <2>1, LabelsFacts
  <2>3. QED
    BY <2>2, LenProperties DEF Offset
<1>3. Offset(1) = 0
  BY LabelsFacts, EmptySeq DEF Offset
<1>4. ASSUME NEW k \in Categories, k + 1 \in Categories PROVE Offset(k + 1) = Offset(k) + Count[k]
  <2>1. Labels[(k + 1) - 1] = Labels[k - 1] \o LabelsOf(k)
    BY <1>1, LabelsFacts
  <2>2. QED
    <3>1. /\ Labels[k - 1] \in V /\ LabelsOf(k) \in V /\ Len(LabelsOf(k)) = Count[k]
      BY <1>2, LabelsOfFacts
    <3>2. Len(Labels[k - 1] \o LabelsOf(k)) = Len(Labels[k - 1]) + Len(LabelsOf(k))
      BY <3>1, ConcatProperties
    <3>3. QED
      BY <2>1, <3>1, <3>2 DEF Offset
<1>5. 0 \in K
  BY <1>1
<1>6. ASSUME NEW k \in 0..L, k \in K, k < L PROVE k + 1 \in K
  <2>1. k + 1 \in Categories /\ k + 1 \in 0..L
    BY <1>1, <1>6
  <2>2. CASE k = 0
    <3>1. k + 1 = 1
      BY <2>2
    <3>2. QED
      BY <1>3, <2>1, <3>1, Layout
  <2>3. CASE k # 0
    <3>1. k \in Categories /\ Offset(k) <= Start[k]
      BY <1>1, <1>6, <2>3
    <3>2. Start[k] + Count[k] < Start[k + 1] /\ Start[k + 1] \in Nat /\ Start[k] \in Nat /\ Count[k] \in Nat
      BY <2>1, <3>1, Layout
    <3>3. Offset(k + 1) = Offset(k) + Count[k] /\ Offset(k) \in Nat
      BY <1>2, <1>4, <2>1, <3>1
    <3>4. QED
      BY <2>1, <3>1, <3>2, <3>3
  <2>4. QED
    BY <2>2, <2>3
<1>7. \A k \in 0..L : k \in K
  <2> HIDE DEF K, L
  <2>1. QED
    BY <1>1, <1>5, <1>6, UpToInduction
<1>8. \A k \in Categories : Offset(k) <= Start[k]
  BY <1>1, <1>7
<1>9. QED
  BY <1>2, <1>3, <1>4, <1>8

\* Each label is where the offset of its category says.
LEMMA LabelAt ==
  ASSUME NEW k \in Categories, NEW n \in 1..Count[k]
  PROVE  Offset(k) + n \in DOMAIN Table /\ Table[Offset(k) + n] = <<k, n>>
<1> DEFINE L == Len(Start)
           V == Seq(Categories \X Nat)
           at == Offset(k) + n
           K == {j \in 0..L : k <= j => at \in 1..Len(Labels[j]) /\ Labels[j][at] = <<k, n>>}
<1>1. L \in Nat \ {0} /\ Categories = 1..L /\ k \in Nat /\ k # 0
  BY Layout
<1>2. Count[k] \in Nat /\ n \in Nat /\ n # 0 /\ Offset(k) \in Nat
  BY Layout, OffsetFacts
<1>3. 0 \in K
  BY <1>1
<1>4. ASSUME NEW j \in 0..L, j \in K, j < L PROVE j + 1 \in K
  <2>1. j + 1 \in Categories /\ j + 1 \in 0..L /\ (j + 1) - 1 = j /\ j \in Nat
    BY <1>1, <1>4
  <2>2. Labels[j + 1] = Labels[j] \o LabelsOf(j + 1)
    BY <2>1, LabelsFacts
  <2>3. Labels[j] \in V /\ LabelsOf(j + 1) \in V
    BY LabelsFacts, LabelsOfFacts, <2>1
  <2> DEFINE s == Labels[j]
             t == LabelsOf(j + 1)
             c == s \o t
  <2>4. /\ Len(s) \in Nat /\ Len(t) \in Nat
        /\ Len(c) = Len(s) + Len(t)
        /\ \A i \in 1..(Len(s) + Len(t)) : c[i] = IF i <= Len(s) THEN s[i] ELSE t[i - Len(s)]
    BY <2>3, ConcatProperties, LenProperties
  <2>5. CASE k <= j
    <3>1. at \in 1..Len(s) /\ s[at] = <<k, n>>
      BY <1>4, <2>5
    <3> HIDE DEF at, s, t, c
    <3>2. at \in 1..Len(c) /\ c[at] = <<k, n>>
      BY <2>4, <3>1
    <3>3. QED
      BY <2>1, <2>2, <3>2 DEF s, t, c
  <2>6. CASE k = j + 1
    <3>1. Offset(k) = Len(s)
      BY <2>1, <2>6 DEF Offset
    <3>2. Len(t) = Count[k] /\ t[n] = <<k, n>>
      BY <2>6, LabelsOfFacts
    <3>3. at = Len(s) + n
      BY <3>1
    <3> HIDE DEF at, s, t, c
    <3>4. at \in 1..(Len(s) + Len(t)) /\ ~(at <= Len(s)) /\ at - Len(s) = n
      BY <1>2, <2>4, <3>2, <3>3
    <3>5. at \in 1..Len(c) /\ c[at] = <<k, n>>
      BY <2>4, <3>2, <3>4
    <3>6. QED
      BY <2>1, <2>2, <3>5 DEF s, t, c
  <2>7. CASE ~(k <= j + 1)
    BY <2>1, <2>7
  <2>8. QED
    BY <1>1, <2>1, <2>5, <2>6, <2>7
<1>5. \A j \in 0..L : j \in K
  <2> HIDE DEF K, L
  <2>1. QED
    BY <1>1, <1>3, <1>4, UpToInduction
<1>6. at \in 1..Len(Labels[L]) /\ Labels[L][at] = <<k, n>>
  BY <1>1, <1>5
<1>7. DOMAIN Labels[L] = 1..Len(Labels[L])
  BY <1>1, LabelsFacts, LenProperties
<1>8. QED
  BY <1>6, <1>7 DEF Table

\* What getLabelId adds to the index i and takes from it, when an id is beyond the
\* start of the next category.
LEMMA IndexStep ==
  ASSUME NEW id \in Nat, NEW start \in Nat, NEW count \in Nat, NEW next \in Nat,
         NEW offset \in Nat, NEW i, i = id - start - 1 + offset
  PROVE  i + ((start + count + 1) - start - 1) - (next - start) = id - next - 1 + (offset + count)
  OBVIOUS

\* The index that getLabelId computes is that of the label.
LEMMA LabelIndexAt ==
  ASSUME NEW c \in Categories, NEW n \in 1..Count[c]
  PROVE  LabelIndex(Start[c] + n) = Offset(c) + n - 1
<1> DEFINE L == Len(Start)
           id == Start[c] + n
           Add(k) == (NumBuiltin(k - 1) - Start[k - 1] - 1) - (Start[k] - Start[k - 1])
           G == [k \in 1..(L - 1) |-> [x \in Int |-> IF id > Start[k + 1] THEN x + Add(k + 1) ELSE x]]
           Is(f) == f = [k \in Categories |->
                           IF k = 1 THEN id - Start[1] - 1
                           ELSE IF id > Start[k]
                           THEN f[k - 1] + (NumBuiltin(k - 1) - Start[k - 1] - 1) - (Start[k] - Start[k - 1])
                           ELSE f[k - 1]]
           index == CHOOSE f : Is(f)
           Value(k) == IF k <= c THEN id - Start[k] - 1 + Offset(k) ELSE Offset(c) + n - 1
           K == {k \in 0..L : k \in Categories => index[k] = Value(k)}
<1>1. L \in Nat \ {0} /\ Categories = 1..L /\ L - 1 \in Nat /\ L \in Categories /\ 1 \in Categories
  BY Layout
<1>2. \A k \in Categories : Start[k] \in Nat /\ Count[k] \in Nat /\ Offset(k) \in Nat
  BY Layout, OffsetFacts
<1>3. n \in Nat /\ id \in Nat /\ n <= Count[c] /\ n > 0
  BY <1>2
<1>4. \A k \in Categories : k - 1 \in Categories => Add(k) = Count[k - 1] + Start[k - 1] - Start[k]
  BY <1>2 DEF NumBuiltin
<1>5. \A k \in 1..(L - 1) : k \in Categories /\ k + 1 \in Categories /\ (k + 1) - 1 = k
  BY <1>1
<1>6. ASSUME NEW k \in 1..(L - 1) PROVE Add(k + 1) \in Int
  <2> HIDE DEF Add
  <2>1. Add(k + 1) = Count[k] + Start[k] - Start[k + 1]
    BY <1>4, <1>5
  <2>2. QED
    BY <1>2, <1>5, <2>1
<1> HIDE DEF Add
<1>7. G \in [1..(L - 1) -> [Int -> Int]]
  BY <1>6
<1>8. PICK u \in [0..(L - 1) -> Int] :
             u[0] = id - Start[1] - 1 /\ \A k \in 1..(L - 1) : u[k] = G[k][u[k - 1]]
  <2>1. id - Start[1] - 1 \in Int
    BY <1>1, <1>2, <1>3
  <2> DEFINE M == L - 1
             v == id - Start[1] - 1
  <2>2. M \in Nat /\ v \in Int /\ G \in [1..M -> [Int -> Int]]
    BY <1>1, <1>7, <2>1
  <2> HIDE DEF G, L, id, M, v
  <2>3. Iterates(M, Int, v, G)
    BY <2>2, Iteration
  <2>4. QED
    BY <2>3 DEF Iterates, M, v
<1> DEFINE f == [k \in Categories |-> u[k - 1]]
<1>9. Is(f)
  <2>1. ASSUME NEW k \in Categories
        PROVE  f[k] = IF k = 1 THEN id - Start[1] - 1
                      ELSE IF id > Start[k] THEN f[k - 1] + Add(k) ELSE f[k - 1]
    <3>1. CASE k = 1
      BY <1>8, <3>1
    <3>2. CASE k # 1
      <4>1. k - 1 \in 1..(L - 1) /\ k - 1 \in Categories /\ (k - 1) + 1 = k /\ (k - 1) - 1 \in 0..(L - 1)
        BY <1>1, <3>2
      <4>2. u[k - 1] = G[k - 1][u[(k - 1) - 1]] /\ u[(k - 1) - 1] \in Int
        BY <1>8, <4>1
      <4>3. f[k] = u[k - 1] /\ f[k - 1] = u[(k - 1) - 1]
        BY <4>1
      <4>4. G[k - 1][u[(k - 1) - 1]] = IF id > Start[k] THEN u[(k - 1) - 1] + Add(k) ELSE u[(k - 1) - 1]
        BY <4>1, <4>2
      <4>5. QED
        BY <3>2, <4>2, <4>3, <4>4
    <3>3. QED
      BY <3>1, <3>2
  <2>2. ASSUME NEW k \in Categories, k # 1 PROVE f[k - 1] \in Int /\ k - 1 \in Categories
    <3>1. k - 1 \in Categories /\ (k - 1) - 1 \in 0..(L - 1)
      BY <1>1, <2>2
    <3>2. QED
      BY <1>8, <3>1
  <2>3. ASSUME NEW k \in Categories, k # 1
        PROVE  f[k - 1] + Add(k) = f[k - 1] + (NumBuiltin(k - 1) - Start[k - 1] - 1) - (Start[k] - Start[k - 1])
    <3>1. NumBuiltin(k - 1) = Start[k - 1] + Count[k - 1] + 1
      BY DEF NumBuiltin
    <3>2. Start[k - 1] \in Nat /\ Count[k - 1] \in Nat /\ Start[k] \in Nat /\ f[k - 1] \in Int
      BY <1>2, <2>2, <2>3
    <3> HIDE DEF f
    <3>3. QED
      BY <3>1, <3>2 DEF Add
  <2> HIDE DEF id
  <2>4. ASSUME NEW k \in Categories
        PROVE  f[k] = IF k = 1 THEN id - Start[1] - 1
                      ELSE IF id > Start[k]
                      THEN f[k - 1] + (NumBuiltin(k - 1) - Start[k - 1] - 1) - (Start[k] - Start[k - 1])
                      ELSE f[k - 1]
    BY <2>1, <2>3
  <2>5. f = [k \in Categories |-> f[k]]
    OBVIOUS
  <2> HIDE DEF f
  <2>6. QED
    BY <2>4, <2>5
<1>10. Is(index)
  BY <1>9
<1>11. LabelIndex(id) = index[L]
  BY DEF LabelIndex
<1> HIDE DEF index, f
<1>12. index[1] = id - Start[1] - 1
  BY <1>1, <1>10
<1>13. ASSUME NEW k \in Categories, k # 1
       PROVE  index[k] = IF id > Start[k]
              THEN index[k - 1] + (NumBuiltin(k - 1) - Start[k - 1] - 1) - (Start[k] - Start[k - 1])
              ELSE index[k - 1]
  <2> HIDE DEF id
  <2>1. QED
    BY <1>10, <1>13
<1>14. 0 \in K
  BY <1>1
<1>15. ASSUME NEW k \in 0..L, k \in K, k < L PROVE k + 1 \in K
  <2>1. k + 1 \in Categories /\ k + 1 \in 0..L /\ (k + 1) - 1 = k /\ k \in Nat /\ c \in Nat
    BY <1>1, <1>15
  <2>2. CASE k = 0
    <3>1. k + 1 = 1 /\ 1 <= c
      BY <1>1, <2>2
    <3>2. Value(1) = id - Start[1] - 1
      BY <1>2, <1>1, <1>3, <3>1, OffsetFacts
    <3>3. QED
      BY <1>12, <2>1, <3>1, <3>2
  <2>3. CASE k # 0
    <3>1. k \in Categories /\ index[k] = Value(k) /\ k + 1 # 1
      BY <1>1, <1>15, <2>3
    <3>2. /\ Start[k] \in Nat /\ Count[k] \in Nat /\ Offset(k) \in Nat
          /\ Start[k + 1] \in Nat /\ Offset(k + 1) = Offset(k) + Count[k]
          /\ Start[c] \in Nat /\ Count[c] \in Nat /\ Offset(c) \in Nat
      BY <1>2, <2>1, <3>1, OffsetFacts
    <3>3. NumBuiltin(k) = Start[k] + Count[k] + 1
      BY DEF NumBuiltin
    <3>4. index[k + 1] = IF id > Start[k + 1]
            THEN index[k] + (NumBuiltin(k) - Start[k] - 1) - (Start[k + 1] - Start[k])
            ELSE index[k]
      BY <1>13, <2>1, <3>1
    <3>5. CASE k + 1 <= c
      <4>1. id > Start[k + 1]
        <5>1. k + 1 < c => Start[k + 1] + Count[k + 1] < Start[c]
          BY <2>1, CategoriesApart
        <5>2. Count[k + 1] \in Nat /\ (k + 1 < c \/ k + 1 = c)
          BY <1>2, <2>1, <3>5
        <5>3. CASE k + 1 = c
          BY <1>3, <3>2, <5>3
        <5>4. CASE k + 1 < c
          <6> DEFINE start == Start[c]
                     next == Start[k + 1]
                     more == Count[k + 1]
          <6>1. /\ start \in Nat /\ next \in Nat /\ more \in Nat /\ n \in Nat
                /\ next + more < start
            BY <1>3, <3>2, <5>1, <5>2, <5>4
          <6> HIDE DEF start, next, more
          <6>2. start + n > next
            BY <6>1
          <6>3. QED
            BY <6>2 DEF start, next
        <5>5. QED
          BY <5>2, <5>3, <5>4
      <4>2. k <= c /\ index[k] = id - Start[k] - 1 + Offset(k)
        BY <2>1, <3>1, <3>5
      <4>3. index[k + 1] = index[k] + ((Start[k] + Count[k] + 1) - Start[k] - 1) - (Start[k + 1] - Start[k])
        BY <3>3, <3>4, <4>1
      <4>4. index[k + 1] = id - Start[k + 1] - 1 + Offset(k + 1)
        <5> DEFINE x == id
        <5>1. x \in Nat /\ index[k] = x - Start[k] - 1 + Offset(k)
          BY <1>3, <4>2
        <5> HIDE DEF x
        <5>2. index[k + 1] = x - Start[k + 1] - 1 + (Offset(k) + Count[k])
          <6> DEFINE start == Start[k]
                     count == Count[k]
                     next == Start[k + 1]
                     offset == Offset(k)
                     i == index[k]
          <6>1. start \in Nat /\ count \in Nat /\ next \in Nat /\ offset \in Nat
            BY <3>2
          <6>2. i = x - start - 1 + offset
            BY <5>1
          <6>3. index[k + 1] = i + ((start + count + 1) - start - 1) - (next - start)
            BY <4>3
          <6> HIDE DEF start, count, next, offset, i
          <6>4. index[k + 1] = x - next - 1 + (offset + count)
            BY <5>1, <6>1, <6>2, <6>3, IndexStep
          <6>5. QED
            BY <6>4 DEF start, count, next, offset, i
        <5>3. QED
          BY <3>2, <5>2 DEF x
      <4>5. QED
        BY <2>1, <3>5, <4>4
    <3>6. CASE ~(k + 1 <= c)
      <4>1. ~(id > Start[k + 1])
        <5>1. c < k + 1
          BY <2>1, <3>6
        <5>2. Start[c] + Count[c] < Start[k + 1]
          BY <2>1, <5>1, CategoriesApart
        <5> DEFINE start == Start[c]
                   count == Count[c]
                   next == Start[k + 1]
        <5>3. /\ start \in Nat /\ count \in Nat /\ next \in Nat /\ n \in Nat
              /\ n <= count /\ start + count < next
          BY <1>3, <3>2, <5>2
        <5> HIDE DEF start, count, next
        <5>4. ~(start + n > next)
          BY <5>3
        <5>5. QED
          BY <5>4 DEF start, next
      <4>2. index[k + 1] = index[k]
        BY <3>4, <4>1
      <4>3. Value(k) = Offset(c) + n - 1
        <5>1. CASE k <= c
          <6>1. k = c
            BY <2>1, <3>6, <5>1
          <6>2. Value(k) = (Start[c] + n) - Start[c] - 1 + Offset(c)
            BY <5>1, <6>1
          <6> DEFINE start == Start[c]
                     offset == Offset(c)
          <6>3. start \in Nat /\ offset \in Nat /\ n \in Nat
            BY <1>3, <3>2
          <6> HIDE DEF start, offset
          <6>4. (start + n) - start - 1 + offset = offset + n - 1
            BY <6>3
          <6>5. QED
            BY <6>2, <6>4 DEF start, offset
        <5>2. QED
          BY <5>1
      <4>4. QED
        BY <2>1, <3>1, <3>6, <4>2, <4>3
    <3>7. QED
      BY <3>5, <3>6
  <2>4. QED
    BY <2>2, <2>3
<1>16. \A k \in 0..L : k \in K
  <2> HIDE DEF K, L
  <2>1. QED
    BY <1>1, <1>14, <1>15, UpToInduction
<1>17. index[L] = Value(L)
  BY <1>1, <1>16
<1>18. Value(L) = Offset(c) + n - 1
  <2>1. c \in Nat /\ c <= L
    BY <1>1
  <2>2. CASE c = L
    BY <1>2, <1>3, <2>2
  <2>3. CASE c # L
    BY <1>1, <2>1, <2>3
  <2>4. QED
    BY <2>2, <2>3
<1>19. QED
  BY <1>11, <1>17, <1>18

\* getLabelId finds the label of every id that has one.
LEMMA LabelOfId ==
  ASSUME NEW k \in Categories, NEW n \in 1..Count[k]
  PROVE  GetLabelId(Start[k] + n) = <<k, n>>
<1> DEFINE id == Start[k] + n
           at == LabelIndex(id) + 1
<1>1. /\ Start[k] \in Nat /\ Count[k] \in Nat /\ n \in Nat /\ n # 0 /\ n <= Count[k]
      /\ Offset(k) \in Nat /\ Offset(k) <= Start[k] /\ Start[1] = 0
      /\ UpperLimit \in Nat
  BY Layout, OffsetFacts
<1>2. Start[k] + Count[k] < UpperLimit
  <2>1. k \in Nat /\ Len(Start) \in Nat /\ Len(Start) \in Categories /\ k <= Len(Start)
    BY Layout
  <2>2. k < Len(Start) => Start[k] + Count[k] < Start[Len(Start)]
    BY <2>1, CategoriesApart
  <2>3. /\ Start[Len(Start)] + Count[Len(Start)] < UpperLimit
        /\ Start[Len(Start)] \in Nat /\ Count[Len(Start)] \in Nat
    BY <2>1, Layout
  <2>4. QED
    BY <1>1, <2>1, <2>2, <2>3
<1>3. LabelIndex(id) = Offset(k) + n - 1
  BY LabelIndexAt
<1>4. at = Offset(k) + n
  BY <1>1, <1>3
<1>5. ~(id >= UpperLimit) /\ ~(id <= Start[1]) /\ ~(at > UpperLimit)
  BY <1>1, <1>2, <1>4
<1>6. at \in DOMAIN Table /\ Table[at] = <<k, n>>
  BY <1>4, LabelAt
<1>7. QED
  BY <1>5, <1>6 DEF GetLabelId

-----------------------------------------------------------------------------
\* What a type is converted to, if f has the conversions of its parts.
TypeJson(t, f) ==
  IF Shape[t].class = "other" THEN Null
  ELSE [class |-> Shape[t].class,
        parts |-> [i \in DOMAIN Shape[t].parts |->
                     LET q == Shape[t].parts[i] IN
                     [spelled |-> q, qual |-> q.qual, type |-> f[q.type]]]]

\* f is a conversion of all types with those in known taken as they are.
Visits(f, known) ==
  f = [t \in Types |-> IF t \in DOMAIN known THEN known[t] ELSE TypeJson(t, f)]

LEMMA VisitIs == ASSUME NEW known PROVE Visit(known) = CHOOSE f : Visits(f, known)
  BY DEF Visit, Visits, TypeJson

\* Only the parts of a type matter.
LEMMA SameParts ==
  ASSUME NEW t, NEW f, NEW g, \A p \in PartTypes(t) : f[p] = g[p]
  PROVE  TypeJson(t, f) = TypeJson(t, g)
<1>1. \A i \in DOMAIN Shape[t].parts : f[Shape[t].parts[i].type] = g[Shape[t].parts[i].type]
  BY DEF PartTypes
<1>2. [i \in DOMAIN Shape[t].parts |->
         [spelled |-> Shape[t].parts[i], qual |-> Shape[t].parts[i].qual,
          type |-> f[Shape[t].parts[i].type]]]
      = [i \in DOMAIN Shape[t].parts |->
         [spelled |-> Shape[t].parts[i], qual |-> Shape[t].parts[i].qual,
          type |-> g[Shape[t].parts[i].type]]]
  BY <1>1
<1>3. QED
  BY <1>2 DEF TypeJson

\* There is at most one conversion.
LEMMA VisitsUnique ==
  ASSUME NEW f, NEW g, NEW known, Visits(f, known), Visits(g, known)
  PROVE  f = g
<1> DEFINE C == {t \in Types : f[t] # g[t]}
<1>1. C = {}
  <2> SUFFICES ASSUME C # {} PROVE FALSE
    OBVIOUS
  <2>1. C \in SUBSET Types
    OBVIOUS
  <2>2. PICK t \in C : PartTypes(t) \cap C = {}
    <3> HIDE DEF C
    <3>1. QED
      BY <2>1, TypesAssumption
  <2>3. t \in Types /\ f[t] # g[t] /\ PartTypes(t) \subseteq Types
    BY TypesAssumption
  <2>4. \A p \in PartTypes(t) : f[p] = g[p]
    BY <2>2, <2>3
  <2>5. TypeJson(t, f) = TypeJson(t, g)
    BY <2>4, SameParts
  <2>6. /\ f[t] = IF t \in DOMAIN known THEN known[t] ELSE TypeJson(t, f)
        /\ g[t] = IF t \in DOMAIN known THEN known[t] ELSE TypeJson(t, g)
    BY <2>3 DEF Visits
  <2>7. QED
    BY <2>3, <2>5, <2>6
<1>2. f = [t \in Types |-> f[t]] /\ g = [t \in Types |-> g[t]]
  BY DEF Visits
<1>3. QED
  BY <1>1, <1>2

\* f is a conversion of the types in D, which holds their parts.
Converts(D, f) ==
  /\ D \in SUBSET Types
  /\ \A t \in D : PartTypes(t) \subseteq D
  /\ \A t \in D : f[t] = TypeJson(t, f)

LEMMA ConvertsAgree ==
  ASSUME NEW D, NEW E, NEW f, NEW g, Converts(D, f), Converts(E, g), NEW p \in D \cap E
  PROVE  f[p] = g[p]
<1> DEFINE C == {t \in D \cap E : f[t] # g[t]}
<1> SUFFICES ASSUME C # {} PROVE FALSE
  OBVIOUS
<1>1. C \in SUBSET Types
  BY DEF Converts
<1>2. PICK t \in C : PartTypes(t) \cap C = {}
  <2> HIDE DEF C
  <2>1. QED
    BY <1>1, TypesAssumption
<1>3. t \in D /\ t \in E /\ f[t] # g[t]
  OBVIOUS
<1>4. \A s \in PartTypes(t) : f[s] = g[s]
  BY <1>2, <1>3 DEF Converts
<1>5. TypeJson(t, f) = TypeJson(t, g)
  BY <1>4, SameParts
<1>6. QED
  BY <1>3, <1>5 DEF Converts

\* The types that have a conversion, and the conversion of each.
Convertible == {t \in Types : \E D, f : Converts(D, f) /\ t \in D}
Conversion == [t \in Convertible |-> CHOOSE v : \E D, f : Converts(D, f) /\ t \in D /\ v = f[t]]

LEMMA ConversionOf ==
  ASSUME NEW D, NEW f, Converts(D, f), NEW t \in D
  PROVE  t \in Convertible /\ Conversion[t] = f[t]
<1>1. t \in Convertible
  BY DEF Convertible, Converts
<1>2. \E v : \E E, g : Converts(E, g) /\ t \in E /\ v = g[t]
  OBVIOUS
<1>3. PICK E, g : Converts(E, g) /\ t \in E /\ Conversion[t] = g[t]
  BY <1>1, <1>2 DEF Conversion
<1>4. QED
  BY <1>1, <1>3, ConvertsAgree

LEMMA ConversionConverts == Converts(Convertible, Conversion)
<1>1. Convertible \in SUBSET Types
  BY DEF Convertible
<1>2. ASSUME NEW t \in Convertible
      PROVE  PartTypes(t) \subseteq Convertible /\ Conversion[t] = TypeJson(t, Conversion)
  <2>1. PICK D, f : Converts(D, f) /\ t \in D
    BY DEF Convertible
  <2>2. PartTypes(t) \subseteq D /\ f[t] = TypeJson(t, f)
    BY <2>1 DEF Converts
  <2>3. \A p \in D : p \in Convertible /\ Conversion[p] = f[p]
    BY <2>1, ConversionOf
  <2>4. TypeJson(t, f) = TypeJson(t, Conversion)
    BY <2>2, <2>3, SameParts
  <2>5. QED
    BY <2>1, <2>2, <2>3, <2>4
<1>3. QED
  BY <1>1, <1>2 DEF Converts

\* Every type can be converted.
LEMMA AllConvertible == Convertible = Types
<1> DEFINE C == Types \ Convertible
<1> SUFFICES ASSUME C # {} PROVE FALSE
  BY DEF Convertible
<1>1. C \in SUBSET Types
  OBVIOUS
<1>2. PICK t \in C : PartTypes(t) \cap C = {}
  <2> HIDE DEF C
  <2>1. QED
    BY <1>1, TypesAssumption
<1>3. t \in Types /\ t \notin Convertible /\ PartTypes(t) \subseteq Convertible
  BY <1>2, TypesAssumption
<1> DEFINE E == Convertible \cup {t}
           g == [u \in E |-> IF u = t THEN TypeJson(t, Conversion) ELSE Conversion[u]]
<1>4. \A u \in Convertible : PartTypes(u) \subseteq Convertible /\ Conversion[u] = TypeJson(u, Conversion)
  BY ConversionConverts DEF Converts
<1>5. /\ g[t] = TypeJson(t, Conversion)
      /\ \A u \in Convertible : g[u] = Conversion[u]
  BY <1>3
<1> HIDE DEF g
<1>6. ASSUME NEW u \in E PROVE PartTypes(u) \subseteq E /\ g[u] = TypeJson(u, g)
  <2>1. PartTypes(u) \subseteq Convertible
    BY <1>3, <1>4
  <2>2. TypeJson(u, Conversion) = TypeJson(u, g)
    BY <1>5, <2>1, SameParts
  <2>3. g[u] = TypeJson(u, Conversion)
    BY <1>3, <1>4, <1>5
  <2>4. QED
    BY <2>1, <2>2, <2>3
<1>7. E \in SUBSET Types
  BY <1>3 DEF Convertible
<1>8. Converts(E, g)
  BY <1>6, <1>7 DEF Converts
<1>9. QED
  BY <1>3, <1>8, ConversionOf

-----------------------------------------------------------------------------
\* What a new converter makes of the types.
Fresh == Visit(NothingTracked.types)

\* What is tracked is what a new converter would make of it.
TracksFresh(known) ==
  /\ DOMAIN known.types \subseteq Types
  /\ \A t \in DOMAIN known.types : known.types[t] = Fresh[t]

LEMMA NothingTrackedIsFresh ==
  NothingTracked.types = <<>> /\ DOMAIN NothingTracked.types = {} /\ TracksFresh(NothingTracked)
<1>1. NothingTracked.types = <<>> /\ DOMAIN <<>> = {}
  BY DEF NothingTracked
<1>2. QED
  BY <1>1 DEF TracksFresh

LEMMA FreshVisits == Visits(Fresh, NothingTracked.types)
<1>1. Visits(Conversion, NothingTracked.types)
  <2>1. /\ Conversion = [t \in Types |-> Conversion[t]]
        /\ \A t \in Types : Conversion[t] = TypeJson(t, Conversion)
    <3>1. Conversion = [t \in Convertible |-> Conversion[t]]
      BY DEF Conversion
    <3>2. QED
      BY <3>1, AllConvertible, ConversionConverts DEF Converts
  <2>2. QED
    BY <2>1, NothingTrackedIsFresh DEF Visits
<1>2. QED
  BY <1>1, VisitIs DEF Fresh

\* The caches change nothing.
LEMMA VisitFresh ==
  ASSUME NEW known, TracksFresh(known)
  PROVE  Visit(known.types) = Fresh
<1>1. Fresh = [t \in Types |-> Fresh[t]] /\ \A t \in Types : Fresh[t] = TypeJson(t, Fresh)
  BY FreshVisits, NothingTrackedIsFresh DEF Visits
<1>2. Visits(Fresh, known.types)
  <2>1. \A t \in Types : Fresh[t] = IF t \in DOMAIN known.types THEN known.types[t] ELSE TypeJson(t, Fresh)
    BY <1>1 DEF TracksFresh
  <2>2. QED
    BY <1>1, <2>1 DEF Visits
<1>3. Visits(Visit(known.types), known.types)
  BY <1>2, VisitIs
<1>4. QED
  BY <1>2, <1>3, VisitsUnique

\* A QualType is converted as by a new converter, and what is tracked stays so.
LEMMA ConvertQualTypeFresh ==
  ASSUME NEW known, TracksFresh(known), NEW q, q.type \in Types
  PROVE  /\ ConvertQualType(q, known).json = ConvertQualType(q, NothingTracked).json
         /\ TracksFresh(ConvertQualType(q, known).known)
<1>1. q.type \in Parts[q.type] /\ Parts[q.type] \subseteq Types
  BY DEF Parts
<1>2. ASSUME NEW k, TracksFresh(k)
      PROVE  /\ ConvertQualType(q, k).json = [spelled |-> q.spelled, qual |-> q.qual, type |-> Fresh[q.type]]
             /\ TracksFresh(ConvertQualType(q, k).known)
  <2> DEFINE types == [t \in DOMAIN k.types \cup Parts[q.type] |-> Visit(k.types)[t]]
  <2>1. types = [t \in DOMAIN k.types \cup Parts[q.type] |-> Fresh[t]]
    BY <1>2, VisitFresh
  <2>2. types[q.type] = Fresh[q.type]
    BY <1>1, <2>1
  <2>3. ConvertQualType(q, k).json = [spelled |-> q.spelled, qual |-> q.qual, type |-> types[q.type]]
    BY DEF ConvertQualType
  <2>4. ConvertQualType(q, k).known.types = types
    BY DEF ConvertQualType
  <2> HIDE DEF types
  <2>5. DOMAIN types = DOMAIN k.types \cup Parts[q.type] /\ \A t \in DOMAIN types : types[t] = Fresh[t]
    BY <2>1
  <2>6. DOMAIN k.types \subseteq Types
    BY <1>2 DEF TracksFresh
  <2>7. QED
    BY <1>1, <2>2, <2>3, <2>4, <2>5, <2>6 DEF TracksFresh
<1>3. QED
  BY <1>2, NothingTrackedIsFresh

-----------------------------------------------------------------------------
\* u has what getDescriptionInfo has made of each number of arguments.
Describes(u, args, known) ==
  u = [n \in 0..Len(args) |->
         IF n = 0 THEN [args |-> <<>>, known |-> known] ELSE ConvertArg(u[n - 1], args[n])]

LEMMA DescribesExists ==
  ASSUME NEW S, NEW args \in Seq(S), NEW known
  PROVE  \E u : Describes(u, args, known)
<1> DEFINE N == Len(args)
           v == [args |-> <<>>, known |-> known]
           Upto(u, k) == \A n \in 0..k : u[n] = IF n = 0 THEN v ELSE ConvertArg(u[n - 1], args[n])
           K == {k \in 0..N : \E u : Upto(u, k)}
<1>1. N \in Nat
  BY LenProperties
<1> HIDE DEF N, v
<1>2. 0 \in K
  <2> DEFINE z == [n \in {0} |-> v]
  <2>1. Upto(z, 0)
    OBVIOUS
  <2> HIDE DEF z, Upto
  <2>2. QED
    BY <1>1, <2>1
<1>3. ASSUME NEW k \in 0..N, k \in K, k < N PROVE k + 1 \in K
  <2>1. PICK u : Upto(u, k)
    BY <1>3
  <2>2. /\ k \in Nat /\ k + 1 \in 0..N
        /\ \A n \in 0..(k + 1) : n \in 0..N /\ (n = k + 1 \/ n \in 0..k)
        /\ \A n \in 0..(k + 1) : n # 0 => n - 1 \in 0..N /\ n - 1 # k + 1
        /\ k + 1 # 0 /\ (k + 1) - 1 = k
    BY <1>1, <1>3
  <2> DEFINE w == [n \in 0..N |-> IF n = k + 1 THEN ConvertArg(u[k], args[k + 1]) ELSE u[n]]
  <2>3. w[k + 1] = ConvertArg(u[k], args[k + 1]) /\ \A n \in 0..N : n # k + 1 => w[n] = u[n]
    BY <2>2
  <2> HIDE DEF w
  <2>4. ASSUME NEW n \in 0..(k + 1) PROVE w[n] = IF n = 0 THEN v ELSE ConvertArg(w[n - 1], args[n])
    <3>1. CASE n = k + 1
      BY <2>2, <2>3, <3>1
    <3>2. CASE n \in 0..k /\ n # k + 1
      BY <2>1, <2>2, <2>3, <3>2
    <3>3. QED
      BY <2>2, <3>1, <3>2
  <2>5. QED
    BY <2>2, <2>4
<1>4. N \in K
  <2> HIDE DEF K
  <2>1. \A k \in 0..N : k \in K
    BY <1>1, <1>2, <1>3, UpToInduction
  <2>2. QED
    BY <1>1, <2>1
<1>5. PICK u : Upto(u, N)
  BY <1>4
<1> DEFINE f == [n \in 0..N |-> u[n]]
<1>6. \A n \in 0..N : n # 0 => n - 1 \in 0..N
  BY <1>1
<1>7. \A n \in 0..N : f[n] = IF n = 0 THEN v ELSE ConvertArg(f[n - 1], args[n])
  BY <1>5, <1>6
<1>8. f = [n \in 0..N |-> f[n]]
  OBVIOUS
<1> HIDE DEF f
<1>9. Describes(f, args, known)
  BY <1>7, <1>8 DEF Describes, N, v
<1>10. QED
  BY <1>9

\* The argument json is what the consumer makes of arg, with the type that a new
\* converter would write.
ArgAsFresh(arg, json) ==
  arg.kind = "qualtype" => json.value = ConvertQualType(arg.value, NothingTracked).json

\* What is made of the first n arguments.
Described(done, args, n) ==
  /\ {"args", "known"} \subseteq DOMAIN done
  /\ \E T : done.args \in Seq(T)
  /\ Len(done.args) = n
  /\ TracksFresh(done.known)
  /\ \A a \in 1..n : ArgAsFresh(args[a], done.args[a])

LEMMA DescribedStep ==
  ASSUME NEW n \in Nat, NEW args, NEW done, Described(done, args, n),
         args[n + 1].kind = "qualtype" => args[n + 1].value.type \in Types
  PROVE  Described(ConvertArg(done, args[n + 1]), args, n + 1)
<1> DEFINE arg == args[n + 1]
           next == ConvertArg(done, arg)
<1>1. PICK T : done.args \in Seq(T)
  BY DEF Described
<1>2. PICK x : /\ next.args = Append(done.args, x) /\ ArgAsFresh(arg, x)
               /\ {"args", "known"} \subseteq DOMAIN next /\ TracksFresh(next.known)
  <2>1. CASE arg.kind = "qualtype"
    <3> DEFINE c == ConvertQualType(arg.value, done.known)
               x == [kind |-> arg.kind, value |-> c.json]
    <3>1. next = [args |-> Append(done.args, x), known |-> c.known]
      BY <2>1 DEF ConvertArg
    <3>2. c.json = ConvertQualType(arg.value, NothingTracked).json /\ TracksFresh(c.known)
      BY <2>1, ConvertQualTypeFresh DEF Described
    <3> HIDE DEF c, next, arg
    <3>3. x.value = c.json
      OBVIOUS
    <3>4. ArgAsFresh(arg, x)
      BY <3>2, <3>3 DEF ArgAsFresh
    <3> HIDE DEF x
    <3>5. /\ next.args = Append(done.args, x) /\ next.known = c.known
          /\ {"args", "known"} \subseteq DOMAIN next
      BY <3>1
    <3>6. QED
      BY <3>2, <3>4, <3>5
  <2>2. CASE arg.kind # "qualtype"
    <3>1. next = [done EXCEPT !.args = Append(@, arg)]
      BY <2>2 DEF ConvertArg
    <3> HIDE DEF next, arg
    <3>2. /\ next.args = Append(done.args, arg) /\ next.known = done.known
          /\ {"args", "known"} \subseteq DOMAIN next
      BY <3>1 DEF Described
    <3>3. ArgAsFresh(arg, arg)
      BY <2>2 DEF ArgAsFresh
    <3>4. QED
      BY <3>2, <3>3 DEF Described
  <2>3. QED
    BY <2>1, <2>2
<1> HIDE DEF next
<1>3. done.args \in Seq(T \cup {x})
  BY <1>1
<1>4. /\ next.args \in Seq(T \cup {x}) /\ Len(next.args) = n + 1
      /\ next.args[n + 1] = x
      /\ \A a \in 1..n : next.args[a] = done.args[a]
  <2>1. Len(done.args) = n
    BY DEF Described
  <2> DEFINE s == done.args
  <2>2. s \in Seq(T \cup {x}) /\ Len(s) = n /\ next.args = Append(s, x)
    BY <1>2, <1>3, <2>1
  <2> HIDE DEF s
  <2>3. /\ Append(s, x) \in Seq(T \cup {x}) /\ Len(Append(s, x)) = n + 1
        /\ Append(s, x)[n + 1] = x
        /\ \A a \in 1..n : Append(s, x)[a] = s[a]
    BY <2>2
  <2>4. QED
    BY <2>2, <2>3 DEF s
<1>5. ASSUME NEW a \in 1..(n + 1) PROVE ArgAsFresh(args[a], next.args[a])
  <2>1. CASE a = n + 1
    BY <1>2, <1>4, <2>1
  <2>2. CASE a \in 1..n
    BY <1>4, <2>2 DEF Described
  <2>3. QED
    BY <2>1, <2>2
<1>6. QED
  BY <1>2, <1>4, <1>5 DEF Described, next

\* getDescriptionInfo.
LEMMA DescriptionFresh ==
  ASSUME NEW d, d.args \in Seq(ToSet(d.args)), TracksFresh(tracked),
         \A i \in DOMAIN d.args : d.args[i].kind = "qualtype" => d.args[i].value.type \in Types
  PROVE  Described(GetDescriptionInfo(d), d.args, Len(d.args))
<1> DEFINE N == Len(d.args)
           u == CHOOSE u : Describes(u, d.args, tracked)
           K == {n \in 0..N : Described(u[n], d.args, n)}
<1>1. N \in Nat /\ DOMAIN d.args = 1..N
  BY LenProperties
<1>2. Describes(u, d.args, tracked)
  BY DescribesExists
<1>3. GetDescriptionInfo(d) = u[N]
  BY DEF GetDescriptionInfo, Describes
<1> HIDE DEF u, N
<1>4. \A n \in 0..N : u[n] = IF n = 0 THEN [args |-> <<>>, known |-> tracked]
                             ELSE ConvertArg(u[n - 1], d.args[n])
  BY <1>2 DEF Describes, N
<1>5. 0 \in K
  <2>1. u[0] = [args |-> <<>>, known |-> tracked] /\ 0 \in 0..N
    BY <1>1, <1>4
  <2>2. /\ u[0].args = <<>> /\ u[0].known = tracked /\ {"args", "known"} \subseteq DOMAIN u[0]
        /\ <<>> \in Seq({}) /\ Len(<<>>) = 0 /\ 1..0 = {}
    BY <2>1
  <2>3. Described(u[0], d.args, 0)
    BY <2>2 DEF Described
  <2>4. QED
    BY <2>1, <2>3
<1>6. ASSUME NEW n \in 0..N, n \in K, n < N PROVE n + 1 \in K
  <2>1. n \in Nat /\ n + 1 \in 0..N /\ n + 1 \in DOMAIN d.args /\ n + 1 # 0 /\ (n + 1) - 1 = n
    BY <1>1, <1>6
  <2>2. u[n + 1] = ConvertArg(u[n], d.args[n + 1])
    BY <1>4, <2>1
  <2>3. Described(u[n], d.args, n)
    BY <1>6
  <2>4. Described(u[n + 1], d.args, n + 1)
    BY <2>1, <2>2, <2>3, DescribedStep
  <2>5. QED
    BY <2>1, <2>4
<1>7. \A n \in 0..N : n \in K
  <2> HIDE DEF K
  <2>1. QED
    BY <1>1, <1>5, <1>6, UpToInduction
<1>8. QED
  BY <1>1, <1>3, <1>7 DEF N

-----------------------------------------------------------------------------
\* The mapping of severities alters nothing but the level.
LEMMA ReportedFacts ==
  ASSUME NEW d \in Reported
  PROVE  /\ d.id \in Nat
         /\ d.id < UpperLimit => \E k \in Categories : d.id - Start[k] \in 1..Count[k]
         /\ d.args \in Seq(ToSet(d.args))
         /\ \A i \in DOMAIN d.args : d.args[i].kind = "qualtype" => d.args[i].value.type \in Types
         /\ d.location.type = "macro" =>
              d.location.callers \in Seq(ToSet(d.location.callers)) \ {<<>>}
<1>1. PICK e \in Diagnostics : d = BeginInvocation(e)
  BY DEF Reported
<1>2. d = e \/ \E x : d = [e EXCEPT !.level = x]
  BY <1>1 DEF BeginInvocation
<1>3. DOMAIN e = {"id", "level", "args", "location", "utf8"}
  BY DiagnosticsAssumption
<1>4. d.id = e.id /\ d.args = e.args /\ d.location = e.location
  BY <1>2, <1>3
<1>5. QED
  BY <1>4, DiagnosticsAssumption

\* The converted diagnostic j says what clang said with d.
DiagAsReported(d, j) ==
  /\ \E k \in Categories, n \in 1..UpperLimit :
       d.id = Start[k] + n /\ n <= Count[k] /\ j.labelId = <<k, n>>
  /\ d.location.type = "macro" => Last(j.location.spellingLocs) = Head(d.location.callers)
  /\ \A a \in DOMAIN d.args : ArgAsFresh(d.args[a], j.args[a])

LEMMA ConvertedAsReported ==
  ASSUME NEW d \in Reported, d.id < UpperLimit, TracksFresh(tracked)
  PROVE  /\ DiagAsReported(d, Converted(d, GetDescriptionInfo(d).args))
         /\ TracksFresh(GetDescriptionInfo(d).known)
<1> DEFINE x == GetDescriptionInfo(d)
           j == Converted(d, x.args)
<1>1. Described(x, d.args, Len(d.args))
  BY ReportedFacts, DescriptionFresh
<1> HIDE DEF x
<1>2. /\ j.labelId = GetLabelId(d.id) /\ j.args = x.args
      /\ j.location = GetLocationInfo(d.location)
  BY DEF Converted
<1> HIDE DEF j
<1>3. \E k \in Categories, n \in 1..UpperLimit :
        d.id = Start[k] + n /\ n <= Count[k] /\ j.labelId = <<k, n>>
  <2>1. PICK k \in Categories : d.id - Start[k] \in 1..Count[k]
    BY ReportedFacts
  <2> DEFINE n == d.id - Start[k]
  <2>2. d.id \in Nat /\ Start[k] \in Nat /\ Count[k] \in Nat /\ UpperLimit \in Nat
    BY ReportedFacts, Layout
  <2>3. d.id = Start[k] + n /\ n \in 1..Count[k] /\ n \in 1..UpperLimit /\ n <= Count[k]
    BY <2>1, <2>2
  <2> HIDE DEF n
  <2>4. GetLabelId(d.id) = <<k, n>>
    BY <2>3, LabelOfId
  <2>5. QED
    BY <1>2, <2>3, <2>4
<1>4. ASSUME d.location.type = "macro"
      PROVE  Last(j.location.spellingLocs) = Head(d.location.callers)
  <2> DEFINE s == d.location.callers
  <2>1. s \in Seq(ToSet(s)) /\ s # <<>>
    BY <1>4, ReportedFacts
  <2>2. j.location.spellingLocs = Reverse(s)
    BY <1>2, <1>4 DEF GetLocationInfo
  <2> HIDE DEF s
  <2>3. Len(s) \in Nat /\ Len(s) # 0
    BY <2>1, EmptySeq, LenProperties
  <2>4. Len(Reverse(s)) = Len(s) /\ Reverse(s)[Len(s)] = s[1]
    <3>1. Reverse(s) = [i \in 1..Len(s) |-> s[(Len(s) - i) + 1]]
      BY DEF Reverse
    <3>2. Reverse(s) \in Seq({s[i] : i \in 1..Len(s)}) /\ DOMAIN Reverse(s) = 1..Len(s)
      BY <2>3, <3>1
    <3>3. Len(Reverse(s)) = Len(s)
      BY <2>3, <3>2
    <3>4. Len(s) \in 1..Len(s) /\ (Len(s) - Len(s)) + 1 = 1
      BY <2>3
    <3>5. QED
      BY <3>1, <3>3, <3>4
  <2>5. Head(s) = s[1]
    BY <2>1
  <2>6. QED
    BY <2>2, <2>4, <2>5 DEF Last, s
<1>5. \A a \in DOMAIN d.args : ArgAsFresh(d.args[a], j.args[a])
  <2>1. DOMAIN d.args = 1..Len(d.args)
    BY ReportedFacts, LenProperties
  <2>2. QED
    BY <1>1, <1>2, <2>1 DEF Described
<1>6. TracksFresh(x.known)
  BY <1>1 DEF Described
<1>7. DiagAsReported(d, j)
  BY <1>3, <1>4, <1>5 DEF DiagAsReported
<1>8. QED
  BY <1>6, <1>7 DEF x, j

\* The converted diagnostics ds are those that clang has handed over, in its order.
AllAsReported(ds) ==
  /\ Len(ds) = Len(emitted)
  /\ \A i \in 1..Len(emitted) : DiagAsReported(emitted[i], ds[i])

\* Where the diagnostics are at each phase.
DiagsInv ==
  /\ phase \in {"parse", "end"} => TracksFresh(tracked) /\ AllAsReported(info.diags)
  /\ phase \in {"dump", "exited"} /\ ~early => AllAsReported(slot.diags)
  /\ phase = "read" /\ reader.outcome = "result" /\ ~early => AllAsReported(slot.diags)

LEMMA DiagsInvDiagnostic ==
  ASSUME ReportInv, DiagsInv, NEW d \in Reported, HandleDiagnostic(d)
  PROVE  DiagsInv'
<1> DEFINE x == GetDescriptionInfo(d)
           j == Converted(d, x.args)
<1>1. /\ phase = "parse" /\ phase' = phase /\ d.id < UpperLimit
      /\ emitted' = Append(emitted, d)
      /\ info' = [info EXCEPT !.diags = Append(@, j)]
      /\ tracked' = x.known
  BY DEF HandleDiagnostic, CanEmit
<1>2. TracksFresh(tracked) /\ AllAsReported(info.diags)
  BY <1>1 DEF DiagsInv
<1>3. DiagAsReported(d, j) /\ TracksFresh(x.known)
  BY <1>1, <1>2, ConvertedAsReported
<1> HIDE DEF x, j
<1>4. info'.diags = Append(info.diags, j)
  BY <1>1 DEF ReportInv
<1>5. PICK S : info.diags \in Seq(S)
  BY <1>1 DEF ReportInv, Tells
<1>6. emitted \in Seq(Reported)
  BY DEF ReportInv
<1> DEFINE ds == info.diags
           es == emitted
           n == Len(emitted)
<1>7. ds \in Seq(S \cup {j}) /\ es \in Seq(Reported) /\ n \in Nat /\ Len(ds) = n /\ Len(es) = n
  BY <1>2, <1>5, <1>6 DEF AllAsReported
<1>8. \A i \in 1..n : DiagAsReported(es[i], ds[i])
  BY <1>2 DEF AllAsReported
<1> HIDE DEF ds, es, n
<1>9. /\ Len(Append(ds, j)) = n + 1 /\ Len(Append(es, d)) = n + 1
      /\ Append(ds, j)[n + 1] = j /\ Append(es, d)[n + 1] = d
      /\ \A i \in 1..n : Append(ds, j)[i] = ds[i] /\ Append(es, d)[i] = es[i]
      /\ \A i \in 1..(n + 1) : i \in 1..n \/ i = n + 1
  BY <1>7
<1>10. info'.diags = Append(ds, j) /\ emitted' = Append(es, d)
  BY <1>1, <1>4 DEF ds, es
<1>11. ASSUME NEW i \in 1..(n + 1) PROVE DiagAsReported(emitted'[i], info'.diags[i])
  <2>1. CASE i \in 1..n
    BY <1>8, <1>9, <1>10, <2>1
  <2>2. CASE i = n + 1
    BY <1>3, <1>9, <1>10, <2>2
  <2>3. QED
    BY <1>9, <2>1, <2>2
<1>12. AllAsReported(info.diags)'
  BY <1>9, <1>10, <1>11 DEF AllAsReported
<1>13. TracksFresh(tracked)'
  BY <1>1, <1>3 DEF TracksFresh
<1>14. QED
  BY <1>1, <1>12, <1>13 DEF DiagsInv

LEMMA DiagsInvStep ==
  ASSUME ReportInv, DiagsInv, [Next]_vars
  PROVE  DiagsInv'
<1>1. CASE SetupFails
  BY <1>1 DEF SetupFails, DiagsInv
<1>2. CASE ExecuteAction
  <2>1. /\ phase' = "parse" /\ tracked' = NothingTracked /\ info' = NewInfo
        /\ emitted' = <<>>
    BY <1>2 DEF ExecuteAction, ReportInv
  <2>2. NewInfo.diags = <<>> /\ Len(<<>>) = 0 /\ 1..0 = {}
    BY DEF NewInfo
  <2>3. AllAsReported(info.diags)'
    BY <2>1, <2>2 DEF AllAsReported
  <2>4. TracksFresh(tracked)'
    BY <2>1, NothingTrackedIsFresh DEF TracksFresh
  <2>5. QED
    BY <2>1, <2>3, <2>4 DEF DiagsInv
<1>3. CASE EndSourceFile
  <2>1. /\ phase = "parse" /\ phase' = "end" /\ UNCHANGED <<emitted, tracked>>
        /\ info' = [info EXCEPT !.counts = counts]
    BY <1>3 DEF EndSourceFile
  <2>2. info'.diags = info.diags
    BY <2>1 DEF ReportInv
  <2>3. QED
    BY <2>1, <2>2 DEF DiagsInv, AllAsReported, TracksFresh
<1>4. CASE EndSourceFileAction
  BY <1>4 DEF EndSourceFileAction, consumer, DiagsInv, AllAsReported
<1>5. ASSUME NEW d \in Reported, HandleCustomDiagnostic(d) PROVE DiagsInv'
  BY <1>5 DEF HandleCustomDiagnostic, DiagsInv
<1>6. CASE Dump
  <2>1. /\ phase = "dump" /\ phase' \in {"failed", "crashed", "exited"}
        /\ UNCHANGED <<early, slot, emitted>>
    BY <1>6 DEF Dump, consumer
  <2>2. QED
    BY <2>1 DEF DiagsInv, AllAsReported
<1>7. CASE Run
  <2>1. /\ phase' = "read" /\ UNCHANGED <<early, slot, emitted>>
        /\ \/ phase = "exited"
           \/ reader' = [outcome |-> "exporter failed", file |-> Null]
    BY <1>7 DEF Run, consumer
  <2>2. ASSUME phase # "exited" PROVE reader'.outcome # "result"
    <3>1. reader' = [outcome |-> "exporter failed", file |-> Null]
      BY <2>1, <2>2
    <3>2. reader'.outcome = "exporter failed"
      BY <3>1
    <3>3. QED
      BY <3>2
  <2>3. QED
    BY <2>1, <2>2 DEF DiagsInv, AllAsReported
<1>8. CASE NextIteration
  BY <1>8 DEF NextIteration, StartRun, DiagsInv
<1>9. CASE Ended \/ UNCHANGED vars
  BY <1>9 DEF Ended, vars, consumer, DiagsInv, AllAsReported, TracksFresh
<1>10. QED
  BY <1>1, <1>2, <1>3, <1>4, <1>5, <1>6, <1>7, <1>8, <1>9, DiagsInvDiagnostic DEF Next

\* The inductive invariant of the diagnostics.
LEMMA DiagsInductive == Spec => [](ReportInv /\ DiagsInv)
<1>1. Init => DiagsInv
  BY DEF Init, DiagsInv
<1>2. ReportInv /\ DiagsInv /\ [Next]_vars => DiagsInv'
  BY DiagsInvStep
<1>3. QED
  BY <1>1, <1>2, ReportInductive, PTL DEF Spec

\* What CMender reads of a run whose action was executed is, one for one and in
\* order, what clang has reported, with the labels of the ids.
LEMMA ReadAsReported ==
  ASSUME ReportInv, DiagsInv, Returned, ~early
  PROVE  /\ Len(reader.file.result.diags) = Len(emitted)
         /\ DOMAIN emitted = 1..Len(emitted)
         /\ \A i \in DOMAIN emitted : DiagAsReported(emitted[i], reader.file.result.diags[i])
<1>1. phase = "read" /\ reader.file.result = slot
  BY DEF Returned, ReportInv
<1>2. AllAsReported(slot.diags)
  BY <1>1 DEF Returned, DiagsInv
<1>3. DOMAIN emitted = 1..Len(emitted)
  BY LenProperties DEF ReportInv
<1>4. QED
  BY <1>1, <1>2, <1>3 DEF AllAsReported

\* The diagnostics that CMender reads are clang's, in clang's order, with their
\* labels and the spelling of the token last.
THEOREM DiagsReported == Spec => []DiagsAsReported
<1>1. ReportInv /\ DiagsInv => DiagsAsReported
  <2> SUFFICES ASSUME ReportInv, DiagsInv, Returned, ~early
               PROVE  DiagsAsReported
    BY DEF DiagsAsReported
  <2>1. QED
    BY ReadAsReported DEF DiagsAsReported, DiagAsReported
<1>2. QED
  BY <1>1, DiagsInductive, PTL

\* The types that CMender reads do not depend on the types that were converted
\* before them.
THEOREM TypesFresh == Spec => []TypesAsFresh
<1>1. ReportInv /\ DiagsInv => TypesAsFresh
  <2> SUFFICES ASSUME ReportInv, DiagsInv, Returned, ~early
               PROVE  TypesAsFresh
    BY DEF TypesAsFresh
  <2>1. QED
    BY ReadAsReported DEF TypesAsFresh, DiagAsReported, ArgAsFresh
<1>2. QED
  BY <1>1, DiagsInductive, PTL
=============================================================================
