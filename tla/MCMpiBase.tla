------------------------------- MODULE MCMpiBase -------------------------------
EXTENDS MpiBase, MCGraphs

(* keys 0 and 1 on one process, none on process 0 when there are three *)
MCOwner == [key \in 0 .. MaxVertex |-> IF key = 2 THEN Size - 1 ELSE 1 % Size]
================================================================================
