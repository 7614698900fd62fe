------------------------------- MODULE Mending -------------------------------
(***************************************************************************)
(* What the mending of a file promises, whatever selects the diagnostics   *)
(* and whatever limits the loop: the compiler's verdict on the mends that  *)
(* the file includes decides the outcome.  A file is called mended only    *)
(* when the mends shown to the compiler last had no error, and a clean     *)
(* verdict is never thrown away: mending gives up only on a file that the  *)
(* compiler refused, or has not judged with these mends.                   *)
(***************************************************************************)
CONSTANT Mends

VARIABLES
  table,    \* the mends made so far
  shown,    \* those that the file includes
  verdict,  \* what the compiler said of the file that includes them
  outcome

vars == <<table, shown, verdict, outcome>>

Init == /\ table = {}
        /\ shown = {}
        /\ verdict = "unknown"
        /\ outcome = "running"

Compile == /\ outcome = "running"
           /\ verdict = "unknown"
           /\ verdict' \in {"errors", "clean"}
           /\ UNCHANGED <<table, shown, outcome>>

\* Only an error of the compiler asks for a mend.
Mend == /\ outcome = "running"
        /\ verdict = "errors"
        /\ \E m \in Mends \ table : table' = table \cup {m}
        /\ UNCHANGED <<shown, verdict, outcome>>

\* The mends are shown to the compiler, all of them; what it said before is no
\* longer about the file.
Show == /\ outcome = "running"
        /\ verdict = "errors"
        /\ shown' = table
        /\ verdict' = "unknown"
        /\ UNCHANGED <<table, outcome>>

\* The file is left as it is, to be judged again.
Retry == /\ outcome = "running"
         /\ verdict = "errors"
         /\ verdict' = "unknown"
         /\ UNCHANGED <<table, shown, outcome>>

Succeed == /\ outcome = "running"
           /\ verdict = "clean"
           /\ outcome' = "mended"
           /\ UNCHANGED <<table, shown, verdict>>

\* A limit is reached or a step fails; the file may be left with a part of the mends.
GiveUp == /\ outcome = "running"
          /\ verdict # "clean"
          /\ outcome' = "failed"
          /\ shown' \in SUBSET table
          /\ verdict' = "unknown"
          /\ UNCHANGED table

Next == Compile \/ Mend \/ Show \/ Retry \/ Succeed \/ GiveUp

Spec == Init /\ [][Next]_vars
=============================================================================
