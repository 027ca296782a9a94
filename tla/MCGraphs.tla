------------------------------- MODULE MCGraphs -------------------------------
(***************************************************************************)
(* The input files of the model-checked instances.                         *)
(***************************************************************************)
EXTENDS Integers, SequencesExt

CONSTANTS MaxEdges, MaxVertex

MCEdges == (0 .. MaxVertex) \X (0 .. MaxVertex)

(* Every file of at most MaxEdges edges over the vertices 0 .. MaxVertex, up   *)
(* to the order of its lines: the graph keeps how often an edge is listed,    *)
(* not where.                                                                 *)
MCRank(edge) == edge[1] * (MaxVertex + 1) + edge[2]
MCFiles ==
  {file \in BoundedSeq(MCEdges, MaxEdges) \ {<<>>} :
     \A i \in 1 .. Len(file) - 1 : MCRank(file[i]) <= MCRank(file[i + 1])}
================================================================================
