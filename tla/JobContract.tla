------------------------------ MODULE JobContract ------------------------------
(***************************************************************************)
(* What the callers of mapreduce::job::run rely on (Calculator::           *)
(* calculateFactor and performIteration in src/C++/Calculator.cpp): the    *)
(* run ends with, for every reduce key, one result that sums all the       *)
(* values emitted for it; results that fall short of that are announced    *)
(* on std::cerr before the run ends, and they never hold a value more      *)
(* often than it was emitted.  A specification is Init(none) and           *)
(* [][Next(owed)]_vars, for the results owed by the job.                   *)
(***************************************************************************)
EXTENDS Integers

VARIABLES
  ended,      \* run has returned
  reported,   \* an error was written to std::cerr
  output      \* reduce key |-> [rows |-> number of results, list |-> bag they sum]

vars == <<ended, reported, output>>

(* no value more often than emitted *)
Within(result, full) == \A v \in DOMAIN full.list : result.list[v] <= full.list[v]

(* the output before the run has ended *)
Init(none) == ended = FALSE /\ reported = FALSE /\ output = none

Report ==
  /\ ~ended /\ ~reported
  /\ reported' = TRUE
  /\ UNCHANGED <<ended, output>>

(* the run ends; owed: the results of a run without errors *)
Finish(owed) ==
  /\ ~ended
  /\ ended' = TRUE
  /\ \A r \in DOMAIN owed : Within(output'[r], owed[r])
  /\ reported \/ output' = owed
  /\ UNCHANGED reported

Next(owed) == Report \/ Finish(owed)
================================================================================
