------------------------------- MODULE JobResults -------------------------------
(***************************************************************************)
(* A job and the caller that walks over its results when run() has         *)
(* returned: CpuParallel with the ResultIterator of the in_memory store    *)
(* that it leaves behind (Calculator.cpp's begin_results .. end_results).  *)
(***************************************************************************)
EXTENDS CpuParallel

CONSTANTS End, Unspecified

ASSUME EndAssumption == End \notin RKeys

VARIABLES iterators, current, value, reading, results

readVars == <<iterators, current, value, reading, results>>

(* the list of a key: its result, the values that were not reduced, or, after *)
(* a failed emit, nothing                                                     *)
ListLength(r) ==
  IF rows[r] > 0 THEN rows[r] ELSE MapThenSumSet(LAMBDA k : store[r][k], DOMAIN store[r])
ResultStore ==
  [p \in Partitions |->
     [r \in {q \in RKeys : Part[q] = p /\ store[q] # Absent} |-> ListLength(r)]]

Reader == INSTANCE ResultIterator WITH intermediates_ <- ResultStore, pc <- reading

Read == phase = "done" /\ UNCHANGED vars /\ Reader!Next

JobInit == Init /\ Reader!Init
JobNext == (Next /\ UNCHANGED readVars) \/ Read
JobSpec == JobInit /\ [][JobNext]_<<vars, readVars>> /\ Fairness

--------------------------------------------------------------------------------

(* When the iterator equals end_results(), all results of the job have been   *)
(* read, once each, by ascending key and in the order of each list.           *)
AllRead == Reader!AllRead
=================================================================================
