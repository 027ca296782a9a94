------------------------------- MODULE WebGraph -------------------------------
(***************************************************************************)
(* The graph that class Graph (src/Graph.h) builds from an input file, and *)
(* what one PageRank iteration is made of (src/Utility.cpp).  A file is    *)
(* the sequence of its edges <<from, to>>; the vertices are 0 .. N-1 with  *)
(* N - 1 the largest one an edge names.  Adjacency lists are bags: the     *)
(* order of their members only decides the rounding of a sum.              *)
(***************************************************************************)
EXTENDS Integers, Sequences, FiniteSetsExt

(***************************************************************************)
(* Value (src/Utility.cpp) without rounding: a double that is not negative *)
(* is a fraction <<p, q>> in lowest terms, and a column is a function from *)
(* vertices to values.  (The operations are functions of a pair: TLC then  *)
(* evaluates each argument once.)                                          *)
(***************************************************************************)
Value == Nat \X (Nat \ {0})

gcd[p \in Nat \X Nat] == IF p[2] = 0 THEN p[1] ELSE gcd[<<p[2], p[1] % p[2]>>]

lowest[p \in Nat \X (Nat \ {0})] == LET g == gcd[p] IN <<p[1] \div g, p[2] \div g>>
frac(p, q) == lowest[<<p, q>>]

Zero == <<0, 1>>
One  == <<1, 1>>

(* the numerators of two values over their least common denominator *)
Common(x, y) ==
  LET g == gcd[<<x[2], y[2]>>]
  IN  [x |-> x[1] * (y[2] \div g), y |-> y[1] * (x[2] \div g), den |-> x[2] * (y[2] \div g)]

sum[p \in Value \X Value] == LET c == Common(p[1], p[2]) IN frac(c.x + c.y, c.den)
plus(x, y) == sum[<<x, y>>]

absDiff(x, y) ==
  LET c == Common(x, y) IN frac(IF c.x < c.y THEN c.y - c.x ELSE c.x - c.y, c.den)

product[p \in Value \X Value] ==
  LET u == frac(p[1][1], p[2][2])
      v == frac(p[2][1], p[1][2])
  IN  <<u[1] * v[1], u[2] * v[2]>>
times(x, y) == product[<<x, y>>]

(* x, added n times *)
Multiple(n, x) == IF n = 1 THEN x ELSE times(<<n, 1>>, x)

AtMost(x, y) == LET c == Common(x, y) IN c.x <= c.y

(* std::accumulate from zero of the values of a function, of f(i) for i in S *)
Accumulate(terms) == FoldFunction(plus, Zero, terms)
Total(f(_), S)    == Accumulate([i \in S |-> f(i)])

(* Utility::calculateNorm: the l1 distance of two columns *)
calculateNorm(pageRanks, pageRanks_) ==
  Total(LAMBDA v : absDiff(pageRanks[v], pageRanks_[v]), DOMAIN pageRanks)

-----------------------------------------------------------------------------
CONSTANTS
  A, B,     \* Constant::ALPHA is A / B
  T         \* Constant::TOL is 1 / T

ASSUME AlphaAssumption == A \in Nat \ {0} /\ B \in Nat /\ A < B
ASSUME TolAssumption   == T \in Nat \ {0}

ALPHA == frac(A, B)
GAMMA == frac(B, A)
BETA  == frac(B - A, A)
TOL   == <<1, T>>

(* Vertex is int; an input names vertices whose successor is an int too, and   *)
(* has an edge (Vertices[Vertices.size()-1] is read)                          *)
MaxInt == 2147483647
Vertex == 0 .. MaxInt - 1

IsFile(file) == file \in Seq(Vertex \X Vertex) /\ file # <<>>

VertexList(file) == UNION {{file[e][1], file[e][2]} : e \in DOMAIN file}

numVertices(file) == Max(VertexList(file)) + 1

Vertices(file) == 0 .. numVertices(file) - 1

(* how often the file lists the edge: a repeated one is kept *)
Multiplicity(file, from, to) == Cardinality({e \in DOMAIN file : file[e] = <<from, to>>})

Graph(file) ==
  [toList   |-> [u \in Vertices(file) |-> [v \in Vertices(file) |-> Multiplicity(file, u, v)]],
   fromList |-> [v \in Vertices(file) |-> [u \in Vertices(file) |-> Multiplicity(file, u, v)]]]

OutDegree(list) == MapThenSumSet(LAMBDA v : list[v], DOMAIN list)

calculateHyperLinkColumn(list) ==
  [u \in DOMAIN list |-> IF OutDegree(list[u]) > 0 THEN <<1, OutDegree(list[u])>> ELSE Zero]

getInitPageRank(N) == [v \in 0 .. N-1 |-> <<1, N>>]

(* a vertex's part of the factor *)
FactorValue(hyperlink, rank) == times(IF hyperlink # Zero THEN BETA ELSE GAMMA, rank)
===============================================================================
