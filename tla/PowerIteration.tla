---------------------------- MODULE PowerIteration ----------------------------
(***************************************************************************)
(* What every PageRank program of the repository promises: from the        *)
(* uniform column it multiplies with the Google matrix until a step moves  *)
(* the column by no more than TOL.  SerialPageRank implements this with    *)
(* one process, MpiBase on every process of mpirun.                        *)
(***************************************************************************)
EXTENDS WebGraph

CONSTANT Files     \* input files

VARIABLES
  graph,     \* the adjacency lists of the input file
  column,    \* the ranks after the last full iteration
  ended      \* calculatePageRank has returned

vars == <<graph, column, ended>>

V == DOMAIN graph.toList
N == Cardinality(V)

(* G = alpha S + (1 - alpha)/n 1, where S is H with the columns of dangling    *)
(* vertices replaced by 1/n: the matrix of README.md's "Google Matrix".       *)
Google(u, v) ==
  plus(times(ALPHA, IF OutDegree(graph.toList[u]) = 0 THEN <<1, N>>
                    ELSE <<graph.toList[u][v], OutDegree(graph.toList[u])>>),
       times(frac(B - A, B), <<1, N>>))

(* the Google matrix times a column *)
Multiplied(col) == [v \in V |-> Total(LAMBDA u : times(Google(u, v), col[u]), V)]

Init ==
  /\ \E file \in Files : graph = Graph(file)
  /\ column = getInitPageRank(N)
  /\ ended = FALSE

Iterate ==
  /\ ~ended
  /\ column' = Multiplied(column)
  /\ ended' = AtMost(calculateNorm(column, column'), TOL)
  /\ UNCHANGED graph

Spec == Init /\ [][Iterate]_vars
================================================================================
