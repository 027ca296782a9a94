------------------------------ MODULE CppPageRank ------------------------------
(***************************************************************************)
(* The cdmh driver: PageRank::calculatePageRank of src/C++/PageRank.cpp    *)
(* over Calculator::performIteration of src/C++/Calculator.cpp.  Each      *)
(* iteration runs two mapreduce jobs on one datasource, the first for the  *)
(* factor and the second for the new ranks, and copies the second's        *)
(* results into the column in the order the result iterator yields them.   *)
(*                                                                         *)
(* A job is what JobContract says of it (CpuParallel implements that): it  *)
(* ends with the results it owes, or announces an error and then ends with *)
(* fewer results or shorter lists, or does not end.                        *)
(***************************************************************************)
EXTENDS WebGraph

CONSTANTS
  Files,      \* input files: non-empty sequences of edges
  C,          \* num_cpus_, the threads that ask the datasource for keys
  MaxFaults   \* bound: jobs of a run that announce an error

ASSUME FilesAssumption == \A file \in Files : IsFile(file)
ASSUME ThreadsAssumption == C \in Nat \ {0} /\ MaxFaults \in Nat

VARIABLES
  pc,         \* next step of the iteration
  graph, hyperlink, pageRanks, pageRanks_, factor, norm,
  sequence,   \* FactorData::sequence and PageRankData::sequence
  reported,   \* the running job wrote an error to std::cerr
  clean,      \* history: no job of this iteration did
  faults,     \* jobs that did
  results     \* reduce key |-> [rows |-> 0 or 1, list |-> the map keys whose value it sums]

input == <<graph, hyperlink>>
vars == <<pc, graph, hyperlink, pageRanks, pageRanks_, factor, norm,
          sequence, reported, clean, faults, results>>

V == DOMAIN hyperlink
N == Cardinality(V)
COMMON == 0

(* the map keys that setup_key hands out *)
Handed(job) == {k \in V : k >= sequence[job]}

Nothing == [k \in V |-> 0]
NoRow   == [rows |-> 0, list |-> Nothing]

(* A reduce key whose emit threw between making the key's list and filling it. *)
(* The iterator yields a pair for it all the same, with a value read from the  *)
(* list's end: libstdc++ keeps the length there, 0, whose bits are 0.0.        *)
EmptyRow == [rows |-> 1, list |-> Nothing]

(* MapFactor emits each key's value for COMMON *)
FactorOwed ==
  [r \in {COMMON} |->
     IF Handed("factor") = {} THEN NoRow
     ELSE [rows |-> 1, list |-> [k \in V |-> IF k \in Handed("factor") THEN 1 ELSE 0]]]

(* mutant of PageRankOwed *)
PageRankOwedNoZero ==        \* no value is emitted for the key itself
  [r \in V |->
     [rows |-> IF \E k \in Handed("page") : graph.toList[k][r] > 0 THEN 1 ELSE 0,
      list |-> [k \in V |-> IF k \in Handed("page") THEN graph.toList[k][r] ELSE 0]]]

(* MapPageRank emits ZERO for the key itself and its share along every edge *)
PageRankOwed ==
  [r \in V |->
     [rows |-> IF r \in Handed("page") \/ \E k \in Handed("page") : graph.toList[k][r] > 0
               THEN 1 ELSE 0,
      list |-> [k \in V |-> IF k \in Handed("page") THEN graph.toList[k][r] ELSE 0]]]

(* what a job that loses values or results may end with for a key: nothing, *)
(* an empty list, or the sum of some of the values                          *)
Shortened(owed) ==
  {NoRow} \cup (IF owed.rows = 1 THEN {EmptyRow} ELSE {}) \cup
    {[rows |-> owed.rows, list |-> l] :
       l \in {m \in [V -> 0 .. Max({owed.list[k] : k \in V})] : \A k \in V : m[k] <= owed.list[k]}}

Outputs(owed) ==
  {o \in [DOMAIN owed -> UNION {Shortened(owed[r]) : r \in DOMAIN owed}] :
     \A r \in DOMAIN owed : o[r] \in Shortened(owed[r])}

(* the keys for which the result iterator yields a pair, in its order *)
Rows == {r \in DOMAIN results : results[r].rows = 1}
Position(r) == Cardinality({q \in Rows : q < r})

(* what ReduceFactor and ReducePageRank accumulate for reduce key r *)
Accumulated(r, value(_)) ==
  Total(LAMBDA k : Multiple(results[r].list[k], value(k)), V)

FactorJob   == INSTANCE JobContract WITH ended <- pc # "factor_job", output <- results
PageRankJob == INSTANCE JobContract WITH ended <- pc # "page_job", output <- results

--------------------------------------------------------------------------------
(* Mutants of the definitions below *)

RefreshForgotten ==          \* the sequences are not reset
  /\ pc = "refresh"
  /\ clean' = TRUE
  /\ pc' = "factor_job"
  /\ UNCHANGED <<input, pageRanks, pageRanks_, factor, norm, sequence, reported, faults, results>>

CopyForgotten ==             \* the loop goes on from the same column
  /\ pc = "test"
  /\ pc' = IF AtMost(norm, TOL) THEN "done" ELSE "refresh"
  /\ UNCHANGED <<input, pageRanks, pageRanks_, factor, norm, sequence, reported, clean, faults, results>>

--------------------------------------------------------------------------------
Init ==
  /\ \E file \in Files : graph = Graph(file)
  /\ hyperlink = calculateHyperLinkColumn(graph.toList)
  /\ pc = "refresh"
  /\ pageRanks = getInitPageRank(N)
  /\ pageRanks_ = pageRanks
  /\ factor = Zero /\ norm = Zero
  /\ sequence = [job \in {"factor", "page"} |-> 0]
  /\ reported = FALSE /\ clean = TRUE /\ faults = 0
  /\ results = <<>>

(* PageRankData::refresh: both datasources start again from vertex 0 *)
Refresh ==
  /\ pc = "refresh"
  /\ sequence' = [job \in {"factor", "page"} |-> 0]
  /\ clean' = TRUE
  /\ pc' = "factor_job"
  /\ UNCHANGED <<input, pageRanks, pageRanks_, factor, norm, reported, faults, results>>

(* an error inside a running job *)
JobReports ==
  /\ faults < MaxFaults
  /\ UNCHANGED <<pc, input, pageRanks, pageRanks_, factor, norm, sequence, results>>
  /\ \/ pc = "factor_job" /\ FactorJob!Report
     \/ pc = "page_job" /\ PageRankJob!Report
  /\ faults' = faults + 1 /\ clean' = FALSE

(* every thread stops at the first key that is not below N *)
KeysUsedUp(job) == sequence' = [sequence EXCEPT ![job] = Max({@, N}) + C]

RunFactorJob ==
  /\ pc = "factor_job"
  /\ results' \in IF reported THEN Outputs(FactorOwed) ELSE {FactorOwed}
  /\ pc' = "take_factor"
  /\ FactorJob!Finish(FactorOwed)
  /\ KeysUsedUp("factor")
  /\ UNCHANGED <<input, pageRanks, pageRanks_, factor, norm, clean, faults>>

(* begin_results()->second / N; an iterator without a result yields 0.0 *)
TakeFactor ==
  /\ pc = "take_factor"
  /\ factor' =
       IF Rows = {} THEN Zero
       ELSE times(Accumulated(COMMON, LAMBDA k : FactorValue(hyperlink[k], pageRanks[k])), <<1, N>>)
  /\ reported' = FALSE
  /\ pc' = "page_job"
  /\ UNCHANGED <<input, pageRanks, pageRanks_, norm, sequence, clean, faults, results>>

RunPageRankJob ==
  /\ pc = "page_job"
  /\ results' \in IF reported THEN Outputs(PageRankOwed) ELSE {PageRankOwed}
  /\ pc' = "transform"
  /\ PageRankJob!Finish(PageRankOwed)
  /\ KeysUsedUp("page")
  /\ UNCHANGED <<input, pageRanks, pageRanks_, factor, norm, clean, faults>>

(* the i-th result goes to entry i, whatever its key; the rest stays as it was *)
Transform ==
  /\ pc = "transform"
  /\ pageRanks_' =
       [v \in V |->
          IF \E r \in Rows : Position(r) = v
          THEN LET r == CHOOSE r \in Rows : Position(r) = v
               IN  times(ALPHA, plus(factor,
                                     Accumulated(r, LAMBDA k : times(hyperlink[k], pageRanks[k]))))
          ELSE pageRanks_[v]]
  /\ pc' = "norm"
  /\ UNCHANGED <<input, pageRanks, factor, norm, sequence, reported, clean, faults, results>>

CalculateNorm ==
  /\ pc = "norm"
  /\ norm' = calculateNorm(pageRanks, pageRanks_)
  /\ pc' = "test"
  /\ UNCHANGED <<input, pageRanks, pageRanks_, factor, sequence, reported, clean, faults, results>>

CopyAndTest ==
  /\ pc = "test"
  /\ pageRanks' = pageRanks_
  /\ reported' = FALSE
  /\ pc' = IF AtMost(norm, TOL) THEN "done" ELSE "refresh"
  /\ UNCHANGED <<input, pageRanks_, factor, norm, sequence, clean, faults, results>>

Terminated == pc = "done" /\ UNCHANGED vars

Step == Refresh \/ RunFactorJob \/ TakeFactor \/ RunPageRankJob \/ Transform \/ CalculateNorm \/ CopyAndTest

Next == Step \/ JobReports \/ Terminated

Spec == Init /\ [][Next]_vars

(* The threads of the job that reported an error may wait for ever for the one *)
(* that died with m1 (EndsOrLeaks of CpuParallel); a lone thread has none to   *)
(* wait for it.                                                                *)
MayHang == pc \in {"factor_job", "page_job"} /\ reported /\ C > 1

(* the main thread is not stopped for ever, and a job that did not report ends *)
FairSpec == Spec /\ WF_vars(~MayHang /\ Step)

--------------------------------------------------------------------------------
(* Types; both columns keep one entry per vertex. *)
IsColumn(column) == column \in [V -> Value]

TypeOK ==
  /\ pc \in {"refresh", "factor_job", "take_factor", "page_job", "transform", "norm", "test", "done"}
  /\ IsColumn(hyperlink) /\ IsColumn(pageRanks) /\ IsColumn(pageRanks_)
  /\ factor \in Value /\ norm \in Value
  /\ sequence \in [{"factor", "page"} -> Nat]
  /\ reported \in BOOLEAN /\ clean \in BOOLEAN /\ faults \in 0 .. MaxFaults
  /\ DOMAIN results \subseteq V
  /\ \A r \in DOMAIN results : results[r] \in [rows : {0, 1}, list : [V -> Nat]]

Serial == INSTANCE SerialPageRank WITH
  pc <- CASE pc \in {"refresh", "factor_job", "take_factor"} -> "factor"
          [] pc \in {"page_job", "transform"} -> "transform"
          [] OTHER -> pc

(* As long as no job reports an error, the two jobs of an iteration, the      *)
(* shared datasource and the copy by position compute what the loop of        *)
(* src/Serial/PageRank.cpp does, step for step, on every graph: isolated and  *)
(* dangling vertices included.                                                *)
ImplementsSerial ==
  /\ Serial!Init
  /\ [][faults' = 0 => [Serial!Next]_(Serial!vars)]_vars

Power == INSTANCE PowerIteration WITH column <- pageRanks, ended <- pc = "done"

(* An iteration whose jobs announce nothing multiplies the column it starts   *)
(* from with the Google matrix, whatever earlier iterations lost: nothing of  *)
(* a damaged job remains in the datasource, the results or pageRanks_.        *)
CleanIteration ==
  pc = "norm" /\ clean => pageRanks_ = Power!Multiplied(pageRanks)

(* The loop ends, unless it stays in a job that reported an error: also after *)
(* a job lost results the iteration goes on, from the damaged column, and     *)
(* still contracts.                                                           *)
Terminates == <>(pc = "done") \/ <>[]MayHang
================================================================================
