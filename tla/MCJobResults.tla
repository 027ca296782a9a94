------------------------------ MODULE MCJobResults ------------------------------
(***************************************************************************)
(* The iteration job of Calculator.cpp on a graph of two vertices.         *)
(* MapPageRank emits ZERO for its own vertex and a value for every         *)
(* out-edge: 0 -> 1 twice and 1 -> 0.  Two of four partitions have no key; *)
(* intermediate() leaves out the third.                                    *)
(***************************************************************************)
EXTENDS JobResults

MCKeys == {0, 1}
MCPart == [r \in MCKeys |-> 2 - 2 * r]

Row(a, b) == [r \in MCKeys |-> IF r = 0 THEN a ELSE b]
MCEmit == [k \in 0 .. 1 |-> IF k = 0 THEN Row(1, 2) ELSE Row(1, 1)]
================================================================================
