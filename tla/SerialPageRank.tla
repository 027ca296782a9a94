---------------------------- MODULE SerialPageRank ----------------------------
(***************************************************************************)
(* The reference implementation, PageRank::calculatePageRank of            *)
(* src/Serial/PageRank.cpp: from the uniform column it iterates            *)
(*   pageRanks_[i] = ALPHA * (factor + sum of hyperlink[j] * pageRanks[j]) *)
(* over the edges j -> i until the l1 distance of two iterates is at most  *)
(* TOL.  The other implementations are compared with this one.             *)
(***************************************************************************)
EXTENDS WebGraph

CONSTANT Files     \* input files

ASSUME FilesAssumption == \A file \in Files : IsFile(file)

VARIABLES
  pc,          \* next statement of the loop
  graph,       \* the adjacency lists toList and fromList of the input file
  hyperlink,   \* calculateHyperLinkColumn
  pageRanks, pageRanks_,
  factor,
  norm

vars == <<pc, graph, hyperlink, pageRanks, pageRanks_, factor, norm>>

V == DOMAIN hyperlink
N == Cardinality(V)

(* the matrix H of the hyperlinks times a column, at vertex v *)
Inflow(column, v) ==
  Total(LAMBDA u : Multiple(graph.fromList[v][u], times(hyperlink[u], column[u])), V)

--------------------------------------------------------------------------------
(* Mutants of the actions below *)

TransformInPlace ==            \* the rows below are already replaced
  /\ pc = "transform"
  /\ pageRanks_' = LET new[v \in V] ==
                         times(ALPHA, plus(factor, Total(LAMBDA u :
                           Multiple(graph.fromList[v][u],
                                    times(hyperlink[u], IF u < v THEN new[u] ELSE pageRanks[u])), V)))
                   IN  new
  /\ pc' = "norm"
  /\ UNCHANGED <<graph, hyperlink, pageRanks, factor, norm>>

CalculateNormSigned ==         \* the differences are not taken absolutely
  /\ pc = "norm"
  /\ norm' = absDiff(Total(LAMBDA v : pageRanks[v], V), Total(LAMBDA v : pageRanks_[v], V))
  /\ pc' = "test"
  /\ UNCHANGED <<graph, hyperlink, pageRanks, pageRanks_, factor>>

CopyForgotten ==               \* the loop goes on from the same column
  /\ pc = "test"
  /\ pc' = IF AtMost(norm, TOL) THEN "done" ELSE "factor"
  /\ UNCHANGED <<graph, hyperlink, pageRanks, pageRanks_, factor, norm>>

--------------------------------------------------------------------------------
Init ==
  /\ \E file \in Files : graph = Graph(file)
  /\ hyperlink = calculateHyperLinkColumn(graph.toList)
  /\ pc = "factor"
  /\ pageRanks = getInitPageRank(N)
  /\ pageRanks_ = pageRanks
  /\ factor = Zero /\ norm = Zero

CalculateFactor ==
  /\ pc = "factor"
  /\ factor' = times(Total(LAMBDA v : FactorValue(hyperlink[v], pageRanks[v]), V), <<1, N>>)
  /\ pc' = "transform"
  /\ UNCHANGED <<graph, hyperlink, pageRanks, pageRanks_, norm>>

Transform ==
  /\ pc = "transform"
  /\ pageRanks_' = [v \in V |-> times(ALPHA, plus(factor, Inflow(pageRanks, v)))]
  /\ pc' = "norm"
  /\ UNCHANGED <<graph, hyperlink, pageRanks, factor, norm>>

CalculateNorm ==
  /\ pc = "norm"
  /\ norm' = calculateNorm(pageRanks, pageRanks_)
  /\ pc' = "test"
  /\ UNCHANGED <<graph, hyperlink, pageRanks, pageRanks_, factor>>

(* pageRanks = pageRanks_, then the loop's condition *)
CopyAndTest ==
  /\ pc = "test"
  /\ pageRanks' = pageRanks_
  /\ pc' = IF AtMost(norm, TOL) THEN "done" ELSE "factor"
  /\ UNCHANGED <<graph, hyperlink, pageRanks_, factor, norm>>

Terminated == pc = "done" /\ UNCHANGED vars

Next == CalculateFactor \/ Transform \/ CalculateNorm \/ CopyAndTest \/ Terminated

Spec == Init /\ [][Next]_vars

(* the program has one thread, which is never stopped for ever *)
FairSpec == Spec /\ WF_vars(Next)

--------------------------------------------------------------------------------
(* The types of the variables; the domain of both columns is the vertex set. *)
IsColumn(column) ==
  DOMAIN column = V /\ \A v \in DOMAIN column : column[v] \in Value

TypeOK ==
  /\ pc \in {"factor", "transform", "norm", "test", "done"}
  /\ V = 0 .. N-1
  /\ graph \in [toList : [V -> [V -> Nat]], fromList : [V -> [V -> Nat]]]
  /\ IsColumn(hyperlink) /\ IsColumn(pageRanks) /\ IsColumn(pageRanks_)
  /\ factor \in Value /\ norm \in Value

Power == INSTANCE PowerIteration WITH column <- pageRanks, ended <- pc = "done"

(* The loop is the promised iteration: its one factor for all vertices and    *)
(* its walk over fromList multiply with the Google matrix, and it returns the *)
(* first iterate that is close enough.                                        *)
ImplementsPowerIteration == Power!Spec

(* The returned column is stationary up to TOL: applying the Google matrix    *)
(* once more moves it by no more than ALPHA * TOL.                            *)
ReturnsStationary ==
  pc = "done" =>
    AtMost(calculateNorm(pageRanks, Power!Multiplied(pageRanks)), times(ALPHA, TOL))

================================================================================
