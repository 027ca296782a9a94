----------------------------- MODULE PageRankFile -----------------------------
(***************************************************************************)
(* The output file that all processes of an mpirun write, each with        *)
(* Utility::printPageRank (src/Utility.cpp): opening truncates it, and     *)
(* every line is flushed by endl at the position of its own stream.        *)
(***************************************************************************)
EXTENDS Integers

CONSTANT Hole    \* a line that no one has written since the last truncation

VARIABLES
  line,       \* process |-> the next line its stream writes
  output      \* line |-> the value in it

EmptyFile(V) == [v \in V |-> Hole]

Open(V) == output' = EmptyFile(V) /\ UNCHANGED line

WriteLine(p, column) ==
  /\ line[p] \in DOMAIN column
  /\ output' = [output EXCEPT ![line[p]] = column[line[p]]]
  /\ line' = [line EXCEPT ![p] = @ + 1]

(* the stream of p has written the whole column *)
Printed(p, column) == line[p] \notin DOMAIN column
================================================================================
