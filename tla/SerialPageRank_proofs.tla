------------------------- MODULE SerialPageRank_proofs -------------------------
(***************************************************************************)
(* Theorems of SerialPageRank, for every set of input files, every ALPHA   *)
(* and every TOL: its variables keep their types, its loop multiplies with *)
(* the Google matrix of README.md, and the column that it returns is       *)
(* stationary up to ALPHA * TOL.                                           *)
(***************************************************************************)
EXTENDS SerialPageRank, WebGraph_proofs

--------------------------------------------------------------------------------
(* The inductive invariant: what the input is, and what the statements before *)
(* pc have left in the columns.                                               *)

GraphInv ==
  /\ \E m \in Nat : V = 0 .. m
  /\ IsGraphOn(graph, V)
  /\ hyperlink = calculateHyperLinkColumn(graph.toList)

ColumnInv ==
  /\ pc \in {"factor", "transform", "norm", "test", "done"}
  /\ pageRanks \in [V -> Fraction] /\ pageRanks_ \in [V -> Fraction]
  /\ factor \in Fraction /\ norm \in Fraction

(* the factor of this iteration, and the column that it makes of pageRanks *)
Factor == times(Total(LAMBDA v : FactorValue(hyperlink[v], pageRanks[v]), V), <<1, N>>)
Iterated == [v \in V |-> times(ALPHA, plus(Factor, Inflow(pageRanks, v)))]

IterationInv ==
  /\ pc = "transform" => factor = Factor
  /\ pc \in {"norm", "test"} => pageRanks_ = Iterated
  /\ pc = "test" => norm = calculateNorm(pageRanks, pageRanks_)

Inv == GraphInv /\ ColumnInv /\ IterationInv

LEMMA SizeOfGraph ==
  ASSUME GraphInv
  PROVE  IsFiniteSet(V) /\ N \in Nat \ {0} /\ V = 0 .. N-1
<1>1. PICK m \in Nat : V = 0 .. m
  BY DEF GraphInv
<1>2. IsFiniteSet(0 .. m) /\ Cardinality(0 .. m) = m + 1
  BY FS_Interval
<1> QED
  BY <1>1, <1>2 DEF N

LEMMA GraphInit == Init => GraphInv
<1> SUFFICES ASSUME Init PROVE GraphInv
  OBVIOUS
<1>1. PICK file \in Files : graph = Graph(file)
  BY DEF Init
<1>2. IsFile(file)
  BY FilesAssumption
<1>3. hyperlink = calculateHyperLinkColumn(graph.toList) /\ V = Vertices(file)
  BY <1>1 DEF Init, V, Graph, calculateHyperLinkColumn
<1> QED
  BY <1>1, <1>2, <1>3, VerticesOfFile, GraphOfFile DEF GraphInv

LEMMA ColumnInit == Init => ColumnInv
<1> SUFFICES ASSUME Init PROVE ColumnInv
  OBVIOUS
<1>1. GraphInv
  BY GraphInit
<1>2. PICK m \in Nat : V = 0 .. m
  BY <1>1 DEF GraphInv
<1>3. N = m + 1
  BY <1>2, FS_Interval DEF N
<1>4. pageRanks = getInitPageRank(m + 1) /\ pageRanks_ = pageRanks
  BY <1>3 DEF Init
<1>5. pageRanks \in [V -> Fraction]
  BY <1>2, <1>4, UniformColumn
<1> QED
  BY <1>4, <1>5, UnitFractions DEF Init, ColumnInv

LEMMA LoopSums ==
  ASSUME GraphInv
  PROVE  /\ Factor = LoopFactor(V, N, hyperlink, pageRanks)
         /\ \A v \in V : Inflow(pageRanks, v) = LoopSum(V, graph.toList, hyperlink, pageRanks, v)
<1>1. ASSUME NEW v \in V
      PROVE  [u \in V |-> Multiple(graph.fromList[v][u], times(hyperlink[u], pageRanks[u]))]
               = [u \in V |-> Multiple(graph.toList[u][v], times(hyperlink[u], pageRanks[u]))]
  BY DEF GraphInv, IsGraphOn
<1> QED
  BY <1>1 DEF Factor, LoopFactor, Inflow, LoopSum, Total

LEMMA IteratedRanks ==
  ASSUME GraphInv, pageRanks \in [V -> Fraction]
  PROVE  /\ Factor \in Fraction /\ Iterated \in [V -> Fraction]
         /\ Iterated = [v \in V |-> GoogleRank(V, N, graph.toList, pageRanks, v)]
<1>1. IsFiniteSet(V) /\ N \in Nat \ {0}
  BY SizeOfGraph
<1>2. graph.toList \in [V -> [V -> Nat]] /\ hyperlink = calculateHyperLinkColumn(graph.toList)
  BY DEF GraphInv, IsGraphOn
<1>3. ASSUME NEW v \in V
      PROVE  /\ LoopRank(V, N, graph.toList, hyperlink, pageRanks, v)
                  = GoogleRank(V, N, graph.toList, pageRanks, v)
             /\ LoopFactor(V, N, hyperlink, pageRanks) \in Fraction
             /\ GoogleRank(V, N, graph.toList, pageRanks, v) \in Fraction
  BY <1>1, <1>2, LoopIsGoogle
<1>4. Factor \in Fraction
  <2>1. \E v : v \in V
    BY DEF GraphInv
  <2> QED
    BY <1>3, <2>1, LoopSums
<1>5. Iterated = [v \in V |-> GoogleRank(V, N, graph.toList, pageRanks, v)]
  BY <1>3, LoopSums DEF Iterated, LoopRank
<1> QED
  BY <1>3, <1>4, <1>5

LEMMA InvInit == Init => Inv
BY GraphInit, ColumnInit DEF Inv, IterationInv, Init

LEMMA InvNext == Inv /\ [Next]_vars => Inv'
<1> SUFFICES ASSUME Inv, [Next]_vars PROVE Inv'
  OBVIOUS
<1>1. graph' = graph /\ hyperlink' = hyperlink /\ V' = V /\ N' = N
  BY DEF Next, vars, CalculateFactor, Transform, CalculateNorm, CopyAndTest, Terminated, V, N
<1>2. GraphInv'
  BY <1>1 DEF Inv, GraphInv
<1>3. IsFiniteSet(V)
  BY SizeOfGraph DEF Inv
<1>4. Factor \in Fraction /\ Iterated \in [V -> Fraction]
  BY IteratedRanks DEF Inv, ColumnInv
<1>5. pageRanks' = pageRanks => Factor' = Factor /\ Iterated' = Iterated
  BY <1>1 DEF Factor, Iterated, Inflow, Total
<1>6. CASE CalculateFactor
  <2>1. factor' = Factor
    BY <1>6 DEF CalculateFactor, Factor
  <2> QED
    BY <1>1, <1>2, <1>4, <1>5, <1>6, <2>1 DEF CalculateFactor, Inv, ColumnInv, IterationInv
<1>7. CASE Transform
  <2>1. factor = Factor
    BY <1>7 DEF Transform, Inv, IterationInv
  <2>2. pageRanks_' = Iterated
    BY <1>7, <2>1 DEF Transform, Iterated
  <2> QED
    BY <1>1, <1>2, <1>4, <1>5, <1>7, <2>2 DEF Transform, Inv, ColumnInv, IterationInv
<1>8. CASE CalculateNorm
  <2>1. calculateNorm(pageRanks, pageRanks_) \in Fraction
    BY <1>3, NormFraction DEF Inv, ColumnInv
  <2> QED
    BY <1>1, <1>2, <1>5, <1>8, <2>1 DEF CalculateNorm, Inv, ColumnInv, IterationInv
<1>9. CASE CopyAndTest
  BY <1>1, <1>2, <1>9 DEF CopyAndTest, Inv, ColumnInv, IterationInv
<1>10. CASE UNCHANGED vars
  BY <1>1, <1>2, <1>5, <1>10 DEF vars, Inv, ColumnInv, IterationInv
<1> QED
  BY <1>6, <1>7, <1>8, <1>9, <1>10 DEF Next, Terminated

(* The variables of the loop keep their types: the ranks stay fractions, the  *)
(* columns keep an entry for every vertex.                                    *)
THEOREM TypeCorrect == Spec => []TypeOK
<1>1. Inv => TypeOK
  <2> SUFFICES ASSUME Inv PROVE TypeOK
    OBVIOUS
  <2>1. IsFiniteSet(V) /\ V = 0 .. N-1
    BY SizeOfGraph DEF Inv
  <2>2. /\ graph \in [toList : [V -> [V -> Nat]], fromList : [V -> [V -> Nat]]]
        /\ graph.toList \in [V -> [V -> Nat]]
    BY DEF Inv, GraphInv, IsGraphOn
  <2>3. hyperlink \in [V -> Fraction]
    BY <2>1, <2>2, HyperLinks DEF Inv, GraphInv
  <2> QED
    BY <2>1, <2>2, <2>3, FractionIsValue DEF Inv, ColumnInv, TypeOK, IsColumn
<1> QED
  BY <1>1, InvInit, InvNext, PTL DEF Spec

--------------------------------------------------------------------------------
(* The arithmetic of PowerIteration is that of SerialPageRank. *)

LEMMA SameFractions ==
  /\ Power!Value = Value /\ Power!Zero = Zero
  /\ Power!gcd = gcd /\ Power!lowest = lowest
  /\ Power!sum = sum /\ Power!product = product
<1>1. Power!Value = Value /\ Power!Zero = Zero
  BY DEF Value, Power!Value, Zero, Power!Zero
<1>2. Power!gcd = gcd
  BY DEF gcd, Power!gcd
<1>3. Power!lowest = lowest
  BY <1>2 DEF lowest, Power!lowest
<1>4. Power!sum = sum
  BY <1>1, <1>2, <1>3
     DEF sum, Power!sum, Common, Power!Common, frac, Power!frac
<1>5. Power!product = product
  BY <1>1, <1>3 DEF product, Power!product, frac, Power!frac
<1> QED
  BY <1>1, <1>2, <1>3, <1>4, <1>5

LEMMA SameArithmetic ==
  /\ \A p, q : Power!frac(p, q) = frac(p, q)
  /\ \A x, y : Power!plus(x, y) = plus(x, y)
  /\ \A x, y : Power!times(x, y) = times(x, y)
  /\ \A x, y : Power!absDiff(x, y) = absDiff(x, y)
  /\ \A x, y : Power!AtMost(x, y) = AtMost(x, y)
  /\ \A n, x : Power!Multiple(n, x) = Multiple(n, x)
<1>1. \A p, q : Power!frac(p, q) = frac(p, q)
  BY SameFractions DEF frac, Power!frac
<1>2. \A x, y : Power!plus(x, y) = plus(x, y)
  BY SameFractions DEF plus, Power!plus
<1>3. \A x, y : Power!times(x, y) = times(x, y)
  BY SameFractions DEF times, Power!times
<1>4. \A x, y : Power!absDiff(x, y) = absDiff(x, y)
  BY <1>1, SameFractions DEF absDiff, Power!absDiff, Common, Power!Common
<1>5. \A x, y : Power!AtMost(x, y) = AtMost(x, y)
  BY SameFractions DEF AtMost, Power!AtMost, Common, Power!Common
<1>6. \A n, x : Power!Multiple(n, x) = Multiple(n, x)
  BY <1>3 DEF Multiple, Power!Multiple
<1> QED
  BY <1>1, <1>2, <1>3, <1>4, <1>5, <1>6

LEMMA SameAccumulate == \A terms : Power!Accumulate(terms) = Accumulate(terms)
<1>1. Power!sum = sum /\ Power!Zero = Zero
  BY SameFractions
<1> QED
  BY <1>1, Zenon DEF Accumulate, Power!Accumulate, FoldFunction, Power!FoldFunction,
     FoldFunctionOnSet, Power!FoldFunctionOnSet, MapThenFoldSet, Power!MapThenFoldSet,
     plus, Power!plus

LEMMA SameIteration ==
  /\ Power!ALPHA = ALPHA /\ Power!TOL = TOL
  /\ \A a, b : Power!calculateNorm(a, b) = calculateNorm(a, b)
  /\ \A n : Power!getInitPageRank(n) = getInitPageRank(n)
<1>1. Power!ALPHA = ALPHA /\ Power!TOL = TOL
  BY SameArithmetic DEF ALPHA, Power!ALPHA, TOL, Power!TOL
<1>3. \A a, b : Power!calculateNorm(a, b) = calculateNorm(a, b)
  BY SameArithmetic, SameAccumulate DEF calculateNorm, Power!calculateNorm, Total, Power!Total
<1>4. \A n : Power!getInitPageRank(n) = getInitPageRank(n)
  BY DEF getInitPageRank, Power!getInitPageRank
<1> QED
  BY <1>1, <1>3, <1>4

LEMMA SameGraph ==
  /\ \A file : Power!Graph(file) = Graph(file)
  /\ \A list : Power!OutDegree(list) = OutDegree(list)
<1>1. \A S : Power!Max(S) = Max(S)
  BY DEF Max, Power!Max
<1>2. \A file : Power!Vertices(file) = Vertices(file)
  BY <1>1 DEF Vertices, Power!Vertices, numVertices, Power!numVertices,
       VertexList, Power!VertexList
<1>3. \A file, u, v : Power!Multiplicity(file, u, v) = Multiplicity(file, u, v)
  BY DEF Multiplicity, Power!Multiplicity, Cardinality, Power!Cardinality
<1>4. \A list : Power!OutDegree(list) = OutDegree(list)
  BY DEF OutDegree, Power!OutDegree, MapThenSumSet, Power!MapThenSumSet,
       MapThenFoldSet, Power!MapThenFoldSet
<1> QED
  BY <1>2, <1>3, <1>4 DEF Graph, Power!Graph

--------------------------------------------------------------------------------
(* The refinement *)

LEMMA SameMatrix ==
  ASSUME GraphInv
  PROVE  /\ Power!V = V /\ Power!N = N
         /\ \A u, v : Power!Google(u, v) =
              GoogleEntry(graph.toList[u][v], OutDegree(graph.toList[u]), N)
<1>1. DOMAIN graph.toList = V
  BY DEF GraphInv, IsGraphOn
<1>2. Power!V = V /\ Power!N = N
  BY <1>1 DEF Power!V, Power!N, N, Cardinality, Power!Cardinality
<1>3. \A u, v : Power!Google(u, v) =
        GoogleEntry(graph.toList[u][v], OutDegree(graph.toList[u]), N)
  BY <1>2, SameArithmetic, SameIteration, SameGraph DEF Power!Google, GoogleEntry
<1> QED
  BY <1>2, <1>3

(* One round of the loop is one multiplication with the Google matrix. *)
LEMMA IteratedIsMultiplied ==
  ASSUME GraphInv, pageRanks \in [V -> Fraction]
  PROVE  Iterated = Power!Multiplied(pageRanks)
<1>1. Power!Multiplied(pageRanks) = [v \in V |-> GoogleRank(V, N, graph.toList, pageRanks, v)]
  BY SameMatrix, SameArithmetic, SameAccumulate DEF Power!Multiplied, Power!Total, GoogleRank
<1> QED
  BY <1>1, IteratedRanks

LEMMA InitIsPower == Init => Power!Init
<1> SUFFICES ASSUME Init PROVE Power!Init
  OBVIOUS
<1>1. Power!N = N
  BY GraphInit, SameMatrix
<1> QED
  BY <1>1, SameIteration, SameGraph DEF Init, Power!Init

LEMMA StepIsPower ==
  ASSUME Inv, [Next]_vars
  PROVE  [Power!Iterate]_(Power!vars)
<1>1. CASE CopyAndTest
  <2>1. pageRanks' = Power!Multiplied(pageRanks)
    BY <1>1, IteratedIsMultiplied DEF CopyAndTest, Inv, ColumnInv, IterationInv
  <2>2. (pc' = "done") = AtMost(calculateNorm(pageRanks, pageRanks'), TOL)
    <3>1. norm = calculateNorm(pageRanks, pageRanks')
      BY <1>1 DEF CopyAndTest, Inv, IterationInv
    <3>2. AtMost(norm, TOL) \in BOOLEAN
      BY DEF AtMost
    <3> QED
      BY <1>1, <3>1, <3>2 DEF CopyAndTest
  <2> QED
    BY <1>1, <2>1, <2>2, SameArithmetic, SameIteration DEF CopyAndTest, Power!Iterate
<1>2. CASE CalculateFactor \/ Transform \/ CalculateNorm
  BY <1>2 DEF CalculateFactor, Transform, CalculateNorm, Power!vars
<1>3. CASE UNCHANGED vars
  BY <1>3 DEF vars, Power!vars
<1> QED
  BY <1>1, <1>2, <1>3 DEF Next, Terminated

(* The loop of src/Serial/PageRank.cpp, with one factor for all vertices and a *)
(* walk over fromList, is the promised iteration: from the uniform column it   *)
(* multiplies with the Google matrix, and it returns the first iterate that    *)
(* is within TOL of the one before, on every graph, for every ALPHA and TOL.   *)
THEOREM ImplementsPowerIterationHolds == Spec => ImplementsPowerIteration
<1>1. Inv /\ [Next]_vars => [Power!Iterate]_(Power!vars)
  BY StepIsPower
<1> QED
  BY <1>1, InvInit, InvNext, InitIsPower, PTL DEF Spec, ImplementsPowerIteration, Power!Spec

--------------------------------------------------------------------------------
(* What the returned column is worth.  The ranks always sum to one, so a      *)
(* multiplication shrinks the distance of two of the loop's columns.          *)

Matrix == GoogleMatrix(V, N, graph.toList)

MassInv == Accumulate(pageRanks) = One

(* the column before the last multiplication *)
ReturnedInv ==
  pc = "done" => \E col \in [V -> Fraction] :
    /\ Accumulate(col) = One
    /\ pageRanks = Product(V, Matrix, col)
    /\ AtMost(calculateNorm(col, pageRanks), TOL)

LEMMA SystemOfGraph ==
  ASSUME GraphInv
  PROVE  IsSystem(V, N, graph.toList)
<1>1. IsFiniteSet(V) /\ N \in Nat \ {0} /\ V = 0 .. N-1
  BY SizeOfGraph
<1>2. Accumulate([v \in 0 .. N-1 |-> One]) = <<N, 1>>
  BY <1>1, Ones
<1>3. Sized(V, N)
  BY <1>1, <1>2 DEF Sized
<1> QED
  BY <1>3 DEF IsSystem, GraphInv, IsGraphOn

LEMMA MassInit == Init => MassInv
<1> SUFFICES ASSUME Init PROVE MassInv
  OBVIOUS
<1>1. IsFiniteSet(V) /\ N \in Nat \ {0} /\ V = 0 .. N-1
  BY GraphInit, SizeOfGraph
<1> DEFINE f == [v \in V |-> One]
           b == <<1, N>>
<1>2. One \in Fraction /\ b \in Fraction
  BY <1>1, UnitFractions DEF One
<1>3. f \in [V -> Fraction] /\ Accumulate(f) = <<N, 1>>
  BY <1>1, <1>2, Ones
<1>4. pageRanks \in [V -> Fraction] /\ \A v \in V : pageRanks[v] = b
  BY <1>1, <1>2 DEF Init, getInitPageRank
<1>5. times(One, b) = b /\ times(<<N, 1>>, times(One, b)) = One
  BY <1>1, <1>2, TimesBack, OneLaws
<1>6. Scales(V, b, f, pageRanks)
  BY <1>1, <1>2, <1>3, <1>4, <1>5 DEF Scales
<1> HIDE DEF f, b
<1> QED
  BY <1>3, <1>5, <1>6, ScaledSums DEF MassInv

LEMMA IteratedIsProduct ==
  ASSUME GraphInv, pageRanks \in [V -> Fraction]
  PROVE  Iterated = Product(V, Matrix, pageRanks)
<1>1. ASSUME NEW v \in V
      PROVE  [u \in V |-> times(GoogleEntry(graph.toList[u][v], OutDegree(graph.toList[u]), N),
                                pageRanks[u])]
               = [u \in V |-> times(Matrix[u][v], pageRanks[u])]
  BY DEF Matrix, GoogleMatrix
<1> QED
  BY <1>1, IteratedRanks DEF Product, GoogleRank

LEMMA MassNext ==
  ASSUME Inv, MassInv, [Next]_vars
  PROVE  MassInv'
<1>1. CASE CopyAndTest
  <2>1. pageRanks' = Product(V, Matrix, pageRanks)
    BY <1>1, IteratedIsProduct DEF CopyAndTest, Inv, ColumnInv, IterationInv
  <2>2. Accumulate(Product(V, Matrix, pageRanks)) = Accumulate(pageRanks)
    BY SystemOfGraph, MassKept DEF Inv, ColumnInv, Matrix
  <2> QED
    BY <2>1, <2>2 DEF MassInv
<1>2. CASE pageRanks' = pageRanks
  BY <1>2 DEF MassInv
<1> QED
  BY <1>1, <1>2 DEF Next, vars, CalculateFactor, Transform, CalculateNorm, Terminated

LEMMA ReturnedNext ==
  ASSUME Inv, MassInv, ReturnedInv, [Next]_vars
  PROVE  ReturnedInv'
<1>1. graph' = graph /\ V' = V /\ N' = N /\ Matrix' = Matrix
  BY DEF Next, vars, CalculateFactor, Transform, CalculateNorm, CopyAndTest, Terminated, V, N, Matrix
<1>2. CASE CopyAndTest
  <2>1. /\ pageRanks \in [V -> Fraction] /\ Accumulate(pageRanks) = One
        /\ norm = calculateNorm(pageRanks, pageRanks')
        /\ pc' = "done" => AtMost(norm, TOL)
    BY <1>2 DEF CopyAndTest, Inv, ColumnInv, IterationInv, MassInv
  <2>2. pageRanks' = Product(V, Matrix, pageRanks)
    BY <1>2, IteratedIsProduct DEF CopyAndTest, Inv, ColumnInv, IterationInv
  <2> QED
    BY <1>1, <2>1, <2>2 DEF ReturnedInv
<1>3. CASE UNCHANGED <<pc, pageRanks>>
  BY <1>1, <1>3 DEF ReturnedInv
<1>4. CASE CalculateFactor \/ Transform \/ CalculateNorm
  BY <1>4 DEF CalculateFactor, Transform, CalculateNorm, ReturnedInv
<1> QED
  BY <1>2, <1>3, <1>4 DEF Next, vars, Terminated

LEMMA ReturnedIsStationary ==
  ASSUME Inv, MassInv, ReturnedInv
  PROVE  ReturnsStationary
<1> SUFFICES ASSUME pc = "done"
             PROVE  AtMost(calculateNorm(pageRanks, Power!Multiplied(pageRanks)), times(ALPHA, TOL))
  BY DEF ReturnsStationary
<1>1. PICK col \in [V -> Fraction] :
        /\ Accumulate(col) = One
        /\ pageRanks = Product(V, Matrix, col)
        /\ AtMost(calculateNorm(col, pageRanks), TOL)
  BY DEF ReturnedInv
<1>2. pageRanks \in [V -> Fraction] /\ Accumulate(pageRanks) = One
  BY DEF Inv, ColumnInv, MassInv
<1>3. Power!Multiplied(pageRanks) = Product(V, Matrix, pageRanks)
  BY <1>2, IteratedIsMultiplied, IteratedIsProduct DEF Inv
<1> DEFINE n == calculateNorm(col, pageRanks)
           m == calculateNorm(pageRanks, Product(V, Matrix, pageRanks))
<1>4. AtMost(m, times(ALPHA, n))
  <2>1. IsSystem(V, N, graph.toList)
    BY SystemOfGraph DEF Inv
  <2> QED
    BY <1>1, <1>2, <2>1, GoogleContracts DEF Matrix
<1>5. IsFiniteSet(V) /\ Product(V, Matrix, pageRanks) \in [V -> Fraction]
  BY <1>2, SystemOfGraph, SizeOfGraph, MassKept DEF Inv, Matrix
<1>6. /\ n \in Fraction /\ m \in Fraction /\ TOL \in Fraction /\ ALPHA \in Fraction
      /\ times(ALPHA, n) \in Fraction /\ times(ALPHA, TOL) \in Fraction
  <2>1. n \in Fraction /\ m \in Fraction
    BY <1>2, <1>5, NormFraction
  <2>2. TOL \in Fraction /\ ALPHA \in Fraction
    BY UnitFractions, TolAssumption, Constants DEF TOL
  <2> HIDE DEF n, m
  <2> QED
    BY <2>1, <2>2, TimesCommutes
<1>7. AtMost(n, TOL)
  BY <1>1
<1> HIDE DEF n, m
<1>8. AtMost(times(ALPHA, n), times(ALPHA, TOL))
  BY <1>6, <1>7, AtMostLaws
<1>9. AtMost(m, times(ALPHA, TOL))
  BY <1>4, <1>6, <1>8, AtMostLaws
<1> QED
  BY <1>3, <1>9 DEF m

(* The ranks sum to one in every iteration, on every graph: what vertices     *)
(* without links would lose comes back through the factor.                    *)
THEOREM RanksSumToOne == Spec => []MassInv
BY InvInit, InvNext, MassInit, MassNext, PTL DEF Spec

(* The column that the loop of src/Serial/PageRank.cpp returns is stationary  *)
(* up to ALPHA * TOL, although the loop compares only its last two columns.   *)
THEOREM ReturnsStationaryHolds == Spec => []ReturnsStationary
<1>1. Init => ReturnedInv
  BY DEF Init, ReturnedInv
<1>2. Inv /\ MassInv /\ ReturnedInv /\ [Next]_vars => ReturnedInv'
  BY ReturnedNext
<1>3. Inv /\ MassInv /\ [Next]_vars => MassInv'
  BY MassNext
<1>4. Inv /\ MassInv /\ ReturnedInv => ReturnsStationary
  BY ReturnedIsStationary
<1> QED
  BY <1>1, <1>2, <1>3, <1>4, InvInit, InvNext, MassInit, PTL DEF Spec
================================================================================
