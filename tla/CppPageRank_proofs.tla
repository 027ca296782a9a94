-------------------------- MODULE CppPageRank_proofs --------------------------
(***************************************************************************)
(* Theorems of CppPageRank, for every set of input files and every number  *)
(* of threads: with jobs that report nothing it is the serial loop, and    *)
(* what a job loses stays in the iteration that ran it.                    *)
(***************************************************************************)
EXTENDS CppPageRank, WebGraph_proofs

(* The arithmetic of SerialPageRank is that of CppPageRank. *)

LEMMA SameFractions ==
  /\ Serial!Value = Value /\ Serial!Zero = Zero
  /\ Serial!gcd = gcd /\ Serial!lowest = lowest
  /\ Serial!sum = sum /\ Serial!product = product
<1>1. Serial!Value = Value /\ Serial!Zero = Zero
  BY DEF Value, Serial!Value, Zero, Serial!Zero
<1>2. Serial!gcd = gcd
  BY DEF gcd, Serial!gcd
<1>3. Serial!lowest = lowest
  BY <1>2 DEF lowest, Serial!lowest
<1>4. Serial!sum = sum
  BY <1>1, <1>2, <1>3
     DEF sum, Serial!sum, Common, Serial!Common, frac, Serial!frac
<1>5. Serial!product = product
  BY <1>1, <1>3 DEF product, Serial!product, frac, Serial!frac
<1> QED
  BY <1>1, <1>2, <1>3, <1>4, <1>5

LEMMA SameArithmetic ==
  /\ \A p, q : Serial!frac(p, q) = frac(p, q)
  /\ \A x, y : Serial!plus(x, y) = plus(x, y)
  /\ \A x, y : Serial!times(x, y) = times(x, y)
  /\ \A x, y : Serial!absDiff(x, y) = absDiff(x, y)
  /\ \A x, y : Serial!AtMost(x, y) = AtMost(x, y)
  /\ \A n, x : Serial!Multiple(n, x) = Multiple(n, x)
<1>1. \A p, q : Serial!frac(p, q) = frac(p, q)
  BY SameFractions DEF frac, Serial!frac
<1>2. \A x, y : Serial!plus(x, y) = plus(x, y)
  BY SameFractions DEF plus, Serial!plus
<1>3. \A x, y : Serial!times(x, y) = times(x, y)
  BY SameFractions DEF times, Serial!times
<1>4. \A x, y : Serial!absDiff(x, y) = absDiff(x, y)
  BY <1>1, SameFractions DEF absDiff, Serial!absDiff, Common, Serial!Common
<1>5. \A x, y : Serial!AtMost(x, y) = AtMost(x, y)
  BY SameFractions DEF AtMost, Serial!AtMost, Common, Serial!Common
<1>6. \A n, x : Serial!Multiple(n, x) = Multiple(n, x)
  BY <1>3 DEF Multiple, Serial!Multiple
<1> QED
  BY <1>1, <1>2, <1>3, <1>4, <1>5, <1>6

LEMMA SameAccumulate == \A terms : Serial!Accumulate(terms) = Accumulate(terms)
<1>1. Serial!sum = sum /\ Serial!Zero = Zero
  BY SameFractions
<1> QED
  BY <1>1, Zenon DEF Accumulate, Serial!Accumulate, FoldFunction, Serial!FoldFunction,
     FoldFunctionOnSet, Serial!FoldFunctionOnSet, MapThenFoldSet, Serial!MapThenFoldSet,
     plus, Serial!plus

LEMMA SameIteration ==
  /\ Serial!ALPHA = ALPHA /\ Serial!TOL = TOL
  /\ \A h, x : Serial!FactorValue(h, x) = FactorValue(h, x)
  /\ \A a, b : Serial!calculateNorm(a, b) = calculateNorm(a, b)
  /\ \A n : Serial!getInitPageRank(n) = getInitPageRank(n)
<1>1. Serial!ALPHA = ALPHA /\ Serial!TOL = TOL
  BY SameArithmetic DEF ALPHA, Serial!ALPHA, TOL, Serial!TOL
<1>2. \A h, x : Serial!FactorValue(h, x) = FactorValue(h, x)
  BY SameFractions, SameArithmetic
     DEF FactorValue, Serial!FactorValue, BETA, Serial!BETA, GAMMA, Serial!GAMMA
<1>3. \A a, b : Serial!calculateNorm(a, b) = calculateNorm(a, b)
  BY SameArithmetic, SameAccumulate DEF calculateNorm, Serial!calculateNorm, Total, Serial!Total
<1>4. \A n : Serial!getInitPageRank(n) = getInitPageRank(n)
  BY DEF getInitPageRank, Serial!getInitPageRank
<1> QED
  BY <1>1, <1>2, <1>3, <1>4

LEMMA SameGraph ==
  /\ \A file : Serial!Graph(file) = Graph(file)
  /\ \A list : Serial!calculateHyperLinkColumn(list) = calculateHyperLinkColumn(list)
<1>1. \A S : Serial!Max(S) = Max(S)
  BY DEF Max, Serial!Max
<1>2. \A file : Serial!Vertices(file) = Vertices(file)
  BY <1>1 DEF Vertices, Serial!Vertices, numVertices, Serial!numVertices,
       VertexList, Serial!VertexList
<1>3. \A file, u, v : Serial!Multiplicity(file, u, v) = Multiplicity(file, u, v)
  BY DEF Multiplicity, Serial!Multiplicity, Cardinality, Serial!Cardinality
<1>4. \A list : Serial!OutDegree(list) = OutDegree(list)
  BY DEF OutDegree, Serial!OutDegree, MapThenSumSet, Serial!MapThenSumSet,
       MapThenFoldSet, Serial!MapThenFoldSet
<1> QED
  BY <1>2, <1>3, <1>4, SameFractions
     DEF Graph, Serial!Graph, calculateHyperLinkColumn, Serial!calculateHyperLinkColumn

--------------------------------------------------------------------------------
(* The inductive invariant *)

(* the input is a file's graph, and its vertices are an interval from 0 *)
InputInv ==
  /\ \E m \in Nat : V = 0 .. m
  /\ IsGraphOn(graph, V)
  /\ hyperlink = calculateHyperLinkColumn(graph.toList)

(* a job that hands out every vertex, and loses none, ends with these *)
FullFactor == [r \in {COMMON} |-> [rows |-> 1, list |-> [k \in V |-> 1]]]
FullPage   == [r \in V |-> [rows |-> 1, list |-> [k \in V |-> graph.toList[k][r]]]]

(* a datasource that a job has not used since the refresh starts at vertex 0 *)
FreshSource ==
  /\ DOMAIN sequence = {"factor", "page"}
  /\ pc = "factor_job" => sequence["factor"] = 0
  /\ pc \in {"factor_job", "take_factor", "page_job"} => sequence["page"] = 0

FullResults ==
  /\ pc = "take_factor" => results = FullFactor
  /\ pc = "transform"   => results = FullPage

QuietInv ==
  /\ InputInv
  /\ FreshSource
  /\ faults \in Nat
  /\ faults = 0 => clean = TRUE
  /\ clean = TRUE => reported = FALSE /\ FullResults
  /\ pc = "refresh" => reported = FALSE

LEMMA InputInit == Init => InputInv
<1> SUFFICES ASSUME Init PROVE InputInv
  OBVIOUS
<1>1. PICK file \in Files : graph = Graph(file)
  BY DEF Init
<1>2. IsFile(file)
  BY FilesAssumption
<1>3. hyperlink = calculateHyperLinkColumn(graph.toList) /\ V = Vertices(file)
  BY <1>1 DEF Init, V, Graph, calculateHyperLinkColumn
<1> QED
  BY <1>1, <1>2, <1>3, VerticesOfFile, GraphOfFile DEF InputInv

LEMMA QuietInit == Init => QuietInv
BY InputInit DEF Init, QuietInv, FreshSource, FullResults

(* Every key is handed out when a job's datasource is fresh. *)
LEMMA AllHanded ==
  ASSUME InputInv, NEW job, sequence[job] = 0
  PROVE  Handed(job) = V /\ V # {}
<1>1. PICK m \in Nat : V = 0 .. m
  BY DEF InputInv
<1> QED
  BY <1>1 DEF Handed

LEMMA FactorIsFull ==
  ASSUME InputInv, sequence["factor"] = 0
  PROVE  FactorOwed = FullFactor
BY AllHanded DEF FactorOwed, FullFactor

LEMMA PageIsFull ==
  ASSUME InputInv, sequence["page"] = 0
  PROVE  PageRankOwed = FullPage
BY AllHanded DEF PageRankOwed, FullPage

LEMMA QuietNext == QuietInv /\ [Next]_vars => QuietInv'
<1> SUFFICES ASSUME QuietInv, [Next]_vars PROVE QuietInv'
  OBVIOUS
<1>1. graph' = graph /\ hyperlink' = hyperlink /\ V' = V
  BY DEF Next, Step, vars, input, Refresh, JobReports, RunFactorJob, TakeFactor, RunPageRankJob,
         Transform, CalculateNorm, CopyAndTest, Terminated, V
<1>2. InputInv' /\ FullFactor' = FullFactor /\ FullPage' = FullPage
  BY <1>1 DEF QuietInv, InputInv, FullFactor, FullPage
<1>3. CASE Refresh
  BY <1>2, <1>3 DEF Refresh, QuietInv, FreshSource, FullResults
<1>4. CASE JobReports
  BY <1>2, <1>4 DEF JobReports, input, QuietInv, FreshSource, FullResults
<1>5. CASE RunFactorJob
  <2>1. /\ pc = "factor_job" /\ pc' = "take_factor" /\ faults' = faults
        /\ ~reported => results' = FactorOwed
        /\ reported' = reported /\ clean' = clean
    BY <1>5 DEF RunFactorJob, FactorJob!Finish
  <2>2. FreshSource'
    BY <1>5, <2>1 DEF RunFactorJob, KeysUsedUp, QuietInv, FreshSource
  <2>3. FactorOwed = FullFactor
    BY <2>1, FactorIsFull DEF QuietInv, FreshSource
  <2> QED
    BY <1>2, <2>1, <2>2, <2>3 DEF QuietInv, FullResults
<1>6. CASE TakeFactor
  BY <1>2, <1>6 DEF TakeFactor, QuietInv, FreshSource, FullResults
<1>7. CASE RunPageRankJob
  <2>1. /\ pc = "page_job" /\ pc' = "transform" /\ faults' = faults
        /\ ~reported => results' = PageRankOwed
        /\ reported' = reported /\ clean' = clean
    BY <1>7 DEF RunPageRankJob, PageRankJob!Finish
  <2>2. FreshSource'
    BY <1>7, <2>1 DEF RunPageRankJob, KeysUsedUp, QuietInv, FreshSource
  <2>3. PageRankOwed = FullPage
    BY <2>1, PageIsFull DEF QuietInv, FreshSource
  <2> QED
    BY <1>2, <2>1, <2>2, <2>3 DEF QuietInv, FullResults
<1>8. CASE Transform
  BY <1>2, <1>8 DEF Transform, QuietInv, FreshSource, FullResults
<1>9. CASE CalculateNorm
  BY <1>2, <1>9 DEF CalculateNorm, QuietInv, FreshSource, FullResults
<1>10. CASE CopyAndTest
  BY <1>2, <1>10 DEF CopyAndTest, QuietInv, FreshSource, FullResults
<1>11. CASE UNCHANGED vars
  BY <1>2, <1>11 DEF vars, QuietInv, FreshSource, FullResults
<1> QED
  BY <1>3, <1>4, <1>5, <1>6, <1>7, <1>8, <1>9, <1>10, <1>11 DEF Next, Step, Terminated

--------------------------------------------------------------------------------
(* The refinement *)

(* With a result for every vertex, the i-th result is that of vertex i. *)
LEMMA PositionIsKey ==
  ASSUME InputInv, results = FullPage
  PROVE  Rows = V /\ \A r \in V : Position(r) = r
<1>1. Rows = V
  BY DEF Rows, FullPage
<1>2. ASSUME NEW r \in V
      PROVE  Position(r) = r
  <2>1. PICK m \in Nat : V = 0 .. m
    BY DEF InputInv
  <2>2. r \in Nat /\ {q \in Rows : q < r} = 0 .. r-1
    BY <1>1, <2>1
  <2>3. Cardinality(0 .. r-1) = r
    BY <2>2, FS_Interval
  <2> QED
    BY <2>2, <2>3 DEF Position
<1> QED
  BY <1>1, <1>2

(* From the results of all vertices the driver computes what the loop does. *)
LEMMA FullFactorTaken ==
  ASSUME results = FullFactor, TakeFactor
  PROVE  factor' = LoopFactor(V, N, hyperlink, pageRanks)
<1>1. Rows # {}
  BY DEF Rows, FullFactor
<1>2. factor' = times(Accumulate([k \in V |->
        Multiple(results[COMMON].list[k], FactorValue(hyperlink[k], pageRanks[k]))]), <<1, N>>)
  BY <1>1 DEF TakeFactor, Accumulated, Total
<1>3. [k \in V |-> Multiple(results[COMMON].list[k], FactorValue(hyperlink[k], pageRanks[k]))]
        = [k \in V |-> FactorValue(hyperlink[k], pageRanks[k])]
  BY DEF FullFactor, Multiple
<1> QED
  BY <1>2, <1>3 DEF LoopFactor

LEMMA FullPageCopied ==
  ASSUME InputInv, results = FullPage, Transform
  PROVE  pageRanks_' = [v \in V |->
           times(ALPHA, plus(factor, LoopSum(V, graph.toList, hyperlink, pageRanks, v)))]
<1>1. Rows = V /\ \A r \in V : Position(r) = r
  BY PositionIsKey
<1>2. ASSUME NEW v \in V
      PROVE  Accumulated(v, LAMBDA k : times(hyperlink[k], pageRanks[k]))
               = LoopSum(V, graph.toList, hyperlink, pageRanks, v)
  BY DEF Accumulated, Total, FullPage, LoopSum
<1>3. \A v \in V : /\ \E r \in Rows : Position(r) = v
                  /\ (CHOOSE r \in Rows : Position(r) = v) = v
  BY <1>1
<1> QED
  BY <1>2, <1>3 DEF Transform

LEMMA StepIsSerial ==
  ASSUME QuietInv, faults' = 0, [Next]_vars
  PROVE  [Serial!Next]_(Serial!vars)
<1>1. faults = 0 /\ reported = FALSE /\ FullResults /\ ~JobReports
  <2>1. faults \in Nat
    BY DEF QuietInv
  <2>2. ~JobReports
    <3>1. SUFFICES ASSUME faults' = faults + 1 PROVE FALSE
      BY DEF JobReports
    <3> QED
      BY <2>1, <3>1, SMT
  <2>3. faults = 0
    BY <2>2, Zenon DEF Next, Step, vars, Refresh, RunFactorJob, TakeFactor, RunPageRankJob,
           Transform, CalculateNorm, CopyAndTest, Terminated
  <2> QED
    BY <2>2, <2>3 DEF QuietInv
<1>2. Serial!V = V /\ Serial!N = N
  BY DEF V, Serial!V, N, Serial!N, Cardinality, Serial!Cardinality
<1>4. CASE TakeFactor
  <2>1. factor' = LoopFactor(V, N, hyperlink, pageRanks)
    BY <1>1, <1>4, FullFactorTaken DEF TakeFactor, FullResults
  <2>2. /\ pc = "take_factor" /\ pc' = "page_job"
        /\ UNCHANGED <<graph, hyperlink, pageRanks, pageRanks_, norm>>
    BY <1>4 DEF TakeFactor, input
  <2>3. Serial!CalculateFactor
    BY <1>2, <2>1, <2>2, SameArithmetic, SameAccumulate, SameIteration
       DEF Serial!CalculateFactor, Serial!Total, LoopFactor
  <2> QED
    BY <2>3 DEF Serial!Next
<1>5. CASE Transform
  <2>1. pageRanks_' = [v \in V |->
          times(ALPHA, plus(factor, LoopSum(V, graph.toList, hyperlink, pageRanks, v)))]
    BY <1>1, <1>5, FullPageCopied DEF Transform, FullResults, QuietInv
  <2>2. ASSUME NEW v \in V
        PROVE  Serial!Inflow(pageRanks, v) = LoopSum(V, graph.toList, hyperlink, pageRanks, v)
    <3>1. Serial!Inflow(pageRanks, v) =
            Accumulate([u \in V |-> Multiple(graph.fromList[v][u], times(hyperlink[u], pageRanks[u]))])
      BY <1>2, SameArithmetic, SameAccumulate DEF Serial!Inflow, Serial!Total
    <3>2. [u \in V |-> Multiple(graph.fromList[v][u], times(hyperlink[u], pageRanks[u]))]
            = [u \in V |-> Multiple(graph.toList[u][v], times(hyperlink[u], pageRanks[u]))]
      BY DEF QuietInv, InputInv, IsGraphOn
    <3> QED
      BY <3>1, <3>2 DEF LoopSum
  <2>3. /\ pc = "transform" /\ pc' = "norm"
        /\ UNCHANGED <<graph, hyperlink, pageRanks, factor, norm>>
    BY <1>5 DEF Transform, input
  <2>4. Serial!Transform
    BY <1>2, <2>1, <2>2, <2>3, SameArithmetic, SameIteration DEF Serial!Transform
  <2> QED
    BY <2>4 DEF Serial!Next
<1>6. CASE CalculateNorm
  <2>1. Serial!CalculateNorm
    BY <1>6, SameIteration DEF CalculateNorm, input, Serial!CalculateNorm
  <2> QED
    BY <2>1 DEF Serial!Next
<1>7. CASE CopyAndTest
  <2>1. /\ pc = "test" /\ pc' = IF AtMost(norm, TOL) THEN "done" ELSE "refresh"
        /\ pageRanks' = pageRanks_
        /\ UNCHANGED <<graph, hyperlink, pageRanks_, factor, norm>>
    BY <1>7 DEF CopyAndTest, input
  <2>2. Serial!CopyAndTest
    BY <2>1, SameArithmetic, SameIteration DEF Serial!CopyAndTest
  <2> QED
    BY <2>2 DEF Serial!Next
<1>8. CASE Refresh \/ RunFactorJob \/ RunPageRankJob
  BY <1>8 DEF Refresh, RunFactorJob, RunPageRankJob, input, Serial!vars
<1>9. CASE UNCHANGED vars
  BY <1>9 DEF vars, input, Serial!vars
<1> QED
  BY <1>1, <1>4, <1>5, <1>6, <1>7, <1>8, <1>9 DEF Next, Step, Terminated

LEMMA InitIsSerial == Init => Serial!Init
<1> SUFFICES ASSUME Init PROVE Serial!Init
  OBVIOUS
<1>1. Serial!N = N
  BY DEF V, Serial!V, N, Serial!N, Cardinality, Serial!Cardinality
<1> QED
  BY <1>1, SameFractions, SameIteration, SameGraph DEF Init, Serial!Init

(* As long as no job reports an error, Calculator::performIteration with its  *)
(* two jobs, the refreshed datasource and the copy by position is the loop of *)
(* src/Serial/PageRank.cpp, on every graph and with any number of threads.    *)
THEOREM ImplementsSerialHolds == Spec => ImplementsSerial
<1>1. QuietInv /\ [Next]_vars => (faults' = 0 => [Serial!Next]_(Serial!vars))
  BY StepIsSerial
<1>2. Init => Serial!Init
  BY InitIsSerial
<1> QED
  BY <1>1, <1>2, QuietInit, QuietNext, PTL DEF Spec, ImplementsSerial

--------------------------------------------------------------------------------
(* Types.  Whatever a job lost, its results are lists of times that a value   *)
(* was added, so the columns stay columns.                                    *)

IsResult(o) == o \in [rows : {0, 1}, list : [V -> Nat]]

ResultInv ==
  /\ DOMAIN results \subseteq V
  /\ \A r \in DOMAIN results : IsResult(results[r])
  /\ pc = "take_factor" => DOMAIN results = {COMMON}
  /\ pc = "transform"   => DOMAIN results = V

ColumnInv ==
  /\ pc \in {"refresh", "factor_job", "take_factor", "page_job", "transform", "norm", "test", "done"}
  /\ pageRanks \in [V -> Fraction] /\ pageRanks_ \in [V -> Fraction]
  /\ factor \in Fraction /\ norm \in Fraction
  /\ sequence \in [{"factor", "page"} -> Nat]
  /\ reported \in BOOLEAN /\ clean \in BOOLEAN /\ faults \in 0 .. MaxFaults

TypeInv == InputInv /\ ResultInv /\ ColumnInv

LEMMA SizeOfGraph ==
  ASSUME InputInv
  PROVE  /\ IsFiniteSet(V) /\ N \in Nat \ {0} /\ V = 0 .. N-1 /\ COMMON \in V
         /\ graph.toList \in [V -> [V -> Nat]] /\ hyperlink \in [V -> Fraction]
<1>1. PICK m \in Nat : V = 0 .. m
  BY DEF InputInv
<1>2. IsFiniteSet(0 .. m) /\ Cardinality(0 .. m) = m + 1
  BY FS_Interval
<1>3. IsFiniteSet(V) /\ N \in Nat \ {0} /\ V = 0 .. N-1 /\ COMMON \in V
  BY <1>1, <1>2 DEF N, COMMON
<1>4. graph.toList \in [V -> [V -> Nat]]
  BY DEF InputInv, IsGraphOn
<1> QED
  BY <1>3, <1>4, HyperLinks DEF InputInv

LEMMA LargerIsNat ==
  ASSUME NEW a \in Nat, NEW b \in Nat
  PROVE  Max({a, b}) \in Nat
<1>1. {a, b} \subseteq 0 .. a + b /\ {a, b} # {} /\ a + b \in Nat
  BY SMT
<1>2. Max({a, b}) \in {a, b}
  BY <1>1, MaxOfBounded
<1> QED
  BY <1>2

LEMMA KeysUsedUpType ==
  ASSUME InputInv, ColumnInv, NEW job \in {"factor", "page"}, KeysUsedUp(job)
  PROVE  sequence' \in [{"factor", "page"} -> Nat]
<1>1. Max({sequence[job], N}) \in Nat
  BY SizeOfGraph, LargerIsNat DEF ColumnInv
<1>2. C \in Nat
  BY ThreadsAssumption
<1>3. Max({sequence[job], N}) + C \in Nat
  BY <1>1, <1>2, SMT
<1> QED
  BY <1>3 DEF KeysUsedUp, ColumnInv

(* a job ends with a result or none for each key it owes one *)
LEMMA OutputsType ==
  ASSUME InputInv, NEW owed, \A r \in DOMAIN owed : IsResult(owed[r]), NEW o \in Outputs(owed)
  PROVE  DOMAIN o = DOMAIN owed /\ \A r \in DOMAIN owed : IsResult(o[r])
<1>1. DOMAIN o = DOMAIN owed /\ \A r \in DOMAIN owed : o[r] \in Shortened(owed[r])
  BY DEF Outputs
<1>2. ASSUME NEW full, IsResult(full), NEW s \in Shortened(full)
      PROVE  IsResult(s)
  <2>1. CASE s = NoRow
    BY <2>1 DEF IsResult, NoRow, Nothing
  <2>2. CASE s = EmptyRow
    BY <2>2 DEF IsResult, EmptyRow, Nothing
  <2>3. CASE s # NoRow /\ s # EmptyRow
    <3>1. PICK l \in [V -> 0 .. Max({full.list[k] : k \in V})] : s = [rows |-> full.rows, list |-> l]
      BY <2>3 DEF Shortened
    <3>2. Max({full.list[k] : k \in V}) \in Nat
      <4> DEFINE f == full.list
      <4>1. IsFiniteSet(V) /\ V # {} /\ f \in [V -> Nat]
        BY <1>2, SizeOfGraph DEF IsResult
      <4> HIDE DEF f
      <4>2. Max({f[k] : k \in V}) \in Nat
        BY <4>1, MaxOfColumn
      <4> QED
        BY <4>2 DEF f
    <3>3. l \in [V -> Nat]
      BY <3>2
    <3> QED
      BY <1>2, <3>1, <3>3 DEF IsResult
  <2> QED
    BY <2>1, <2>2, <2>3
<1> QED
  BY <1>1, <1>2

LEMMA OwedType ==
  ASSUME InputInv
  PROVE  /\ DOMAIN FactorOwed = {COMMON} /\ DOMAIN PageRankOwed = V
         /\ \A r \in DOMAIN FactorOwed : IsResult(FactorOwed[r])
         /\ \A r \in DOMAIN PageRankOwed : IsResult(PageRankOwed[r])
<1>1. graph.toList \in [V -> [V -> Nat]]
  BY SizeOfGraph
<1>2. IsResult(NoRow)
  BY DEF IsResult, NoRow, Nothing
<1>3. ASSUME NEW r \in V
      PROVE  IsResult(PageRankOwed[r])
  BY <1>1 DEF PageRankOwed, IsResult
<1>4. IsResult([rows |-> 1, list |-> [k \in V |-> IF k \in Handed("factor") THEN 1 ELSE 0]])
  BY DEF IsResult
<1> QED
  BY <1>2, <1>3, <1>4 DEF FactorOwed, PageRankOwed

(* what TakeFactor and Transform compute from any results *)
LEMMA RanksType ==
  ASSUME TypeInv, NEW r \in DOMAIN results
  PROVE  /\ Accumulated(r, LAMBDA k : FactorValue(hyperlink[k], pageRanks[k])) \in Fraction
         /\ Accumulated(r, LAMBDA k : times(hyperlink[k], pageRanks[k])) \in Fraction
<1>1. IsFiniteSet(V) /\ results[r].list \in [V -> Nat]
  BY SizeOfGraph DEF TypeInv, ResultInv, IsResult
<1>2. hyperlink \in [V -> Fraction] /\ pageRanks \in [V -> Fraction]
  BY SizeOfGraph DEF TypeInv, ColumnInv
<1> DEFINE shares == [k \in V |-> FactorValue(hyperlink[k], pageRanks[k])]
           links  == [k \in V |-> times(hyperlink[k], pageRanks[k])]
<1>3. shares \in [V -> Fraction]
  BY <1>2, FactorFraction
<1>4. links \in [V -> Fraction]
  BY <1>2, FractionIsValue, TimesReduces
<1>5. \A k \in V : /\ shares[k] = FactorValue(hyperlink[k], pageRanks[k])
                   /\ links[k] = times(hyperlink[k], pageRanks[k])
  OBVIOUS
<1> HIDE DEF shares, links
<1>6. /\ Accumulate([k \in V |-> Multiple(results[r].list[k], shares[k])]) \in Fraction
      /\ Accumulate([k \in V |-> Multiple(results[r].list[k], links[k])]) \in Fraction
  BY <1>1, <1>3, <1>4, WeightedFraction
<1> QED
  BY <1>5, <1>6 DEF Accumulated, Total

LEMMA TypeInit == Init => TypeInv
<1> SUFFICES ASSUME Init PROVE TypeInv
  OBVIOUS
<1>1. InputInv
  BY InputInit
<1>2. PICK m \in Nat : V = 0 .. m
  BY <1>1 DEF InputInv
<1>3. N = m + 1
  BY <1>2, FS_Interval DEF N
<1>4. pageRanks = getInitPageRank(m + 1) /\ pageRanks_ = pageRanks
  BY <1>3 DEF Init
<1>5. pageRanks \in [V -> Fraction]
  BY <1>2, <1>4, UniformColumn
<1>6. results = <<>> /\ DOMAIN results = {}
  BY DEF Init
<1>7. ResultInv
  BY <1>6 DEF Init, ResultInv
<1>8. faults \in 0 .. MaxFaults /\ sequence \in [{"factor", "page"} -> Nat]
  BY ThreadsAssumption DEF Init
<1>9. ColumnInv
  BY <1>4, <1>5, <1>8, UnitFractions DEF Init, ColumnInv
<1> QED
  BY <1>1, <1>7, <1>9 DEF TypeInv

LEMMA TypeNext == TypeInv /\ [Next]_vars => TypeInv'
<1> SUFFICES ASSUME TypeInv, [Next]_vars PROVE TypeInv'
  OBVIOUS
<1>1. graph' = graph /\ hyperlink' = hyperlink /\ V' = V /\ N' = N
  BY DEF Next, Step, vars, input, Refresh, JobReports, RunFactorJob, TakeFactor, RunPageRankJob,
         Transform, CalculateNorm, CopyAndTest, Terminated, V, N
<1>2. InputInv' /\ \A o : IsResult(o)' <=> IsResult(o)
  BY <1>1 DEF TypeInv, InputInv, IsResult
<1>3. IsFiniteSet(V) /\ N \in Nat \ {0} /\ COMMON \in V
  BY SizeOfGraph DEF TypeInv
<1>4. CASE Refresh
  BY <1>1, <1>2, <1>4 DEF Refresh, TypeInv, ResultInv, ColumnInv, IsResult
<1>5. CASE JobReports
  <2>1. faults' \in 0 .. MaxFaults
    <3>1. faults \in 0 .. MaxFaults /\ faults < MaxFaults /\ faults' = faults + 1
      BY <1>5 DEF JobReports, TypeInv, ColumnInv
    <3> QED
      BY <3>1, ThreadsAssumption
  <2> QED
    BY <1>1, <1>2, <1>5, <2>1
       DEF JobReports, FactorJob!Report, PageRankJob!Report, TypeInv, ResultInv, ColumnInv, IsResult
<1>6. ASSUME NEW owed, \A r \in DOMAIN owed : IsResult(owed[r]),
             results' \in IF reported THEN Outputs(owed) ELSE {owed}
      PROVE  DOMAIN results' = DOMAIN owed /\ \A r \in DOMAIN results' : IsResult(results'[r])
  BY <1>6, OutputsType DEF TypeInv
<1>7. CASE RunFactorJob
  <2>1. DOMAIN results' = {COMMON} /\ \A r \in DOMAIN results' : IsResult(results'[r])
    <3>1. /\ results' \in IF reported THEN Outputs(FactorOwed) ELSE {FactorOwed}
          /\ DOMAIN FactorOwed = {COMMON} /\ \A r \in DOMAIN FactorOwed : IsResult(FactorOwed[r])
      BY <1>7, OwedType DEF RunFactorJob, TypeInv
    <3> HIDE DEF FactorOwed
    <3> QED
      BY <1>6, <3>1
  <2>2. sequence' \in [{"factor", "page"} -> Nat]
    BY <1>7, KeysUsedUpType DEF RunFactorJob, TypeInv
  <2>3. reported' = reported
    BY <1>7 DEF RunFactorJob, FactorJob!Finish
  <2> QED
    BY <1>1, <1>2, <1>3, <1>7, <2>1, <2>2, <2>3
       DEF RunFactorJob, TypeInv, ResultInv, ColumnInv, IsResult
<1>8. CASE TakeFactor
  <2>1. factor' \in Fraction
    <3>1. CASE Rows = {}
      BY <1>8, <3>1, UnitFractions DEF TakeFactor
    <3>2. CASE Rows # {}
      <4>1. COMMON \in DOMAIN results
        BY <1>8 DEF TakeFactor, TypeInv, ResultInv
      <4> DEFINE a == Accumulated(COMMON, LAMBDA k : FactorValue(hyperlink[k], pageRanks[k]))
                 b == <<1, N>>
      <4>2. a \in Value /\ a \in Fraction /\ b \in Value /\ b \in Fraction
        BY <1>3, <4>1, RanksType, UnitFractions, FractionIsValue
      <4>3. factor' = times(a, b)
        BY <1>8, <3>2 DEF TakeFactor
      <4> HIDE DEF a, b
      <4> QED
        BY <4>2, <4>3, TimesReduces
    <3> QED
      BY <3>1, <3>2
  <2> QED
    BY <1>1, <1>2, <1>8, <2>1 DEF TakeFactor, TypeInv, ResultInv, ColumnInv, IsResult
<1>9. CASE RunPageRankJob
  <2>1. DOMAIN results' = V /\ \A r \in DOMAIN results' : IsResult(results'[r])
    <3>1. /\ results' \in IF reported THEN Outputs(PageRankOwed) ELSE {PageRankOwed}
          /\ DOMAIN PageRankOwed = V /\ \A r \in DOMAIN PageRankOwed : IsResult(PageRankOwed[r])
      BY <1>9, OwedType DEF RunPageRankJob, TypeInv
    <3> HIDE DEF PageRankOwed
    <3> QED
      BY <1>6, <3>1
  <2>2. sequence' \in [{"factor", "page"} -> Nat]
    BY <1>9, KeysUsedUpType DEF RunPageRankJob, TypeInv
  <2>3. reported' = reported
    BY <1>9 DEF RunPageRankJob, PageRankJob!Finish
  <2> QED
    BY <1>1, <1>2, <1>3, <1>9, <2>1, <2>2, <2>3
       DEF RunPageRankJob, TypeInv, ResultInv, ColumnInv, IsResult
<1>10. CASE Transform
  <2> DEFINE inflow(r) == Accumulated(r, LAMBDA k : times(hyperlink[k], pageRanks[k]))
             place(v) == CHOOSE r \in Rows : Position(r) = v
  <2>1. \A r \in Rows : inflow(r) \in Fraction
    BY RanksType DEF Rows
  <2>2. pageRanks_' = [v \in V |-> IF \E r \in Rows : Position(r) = v
                                  THEN times(ALPHA, plus(factor, inflow(place(v))))
                                  ELSE pageRanks_[v]]
    BY <1>10 DEF Transform
  <2>3. \A v \in V : (\E r \in Rows : Position(r) = v) => place(v) \in Rows
    OBVIOUS
  <2> HIDE DEF inflow, place
  <2>4. ASSUME NEW v \in V PROVE pageRanks_'[v] \in Fraction
    <3>1. CASE \E r \in Rows : Position(r) = v
      <4>1. inflow(place(v)) \in Fraction /\ factor \in Fraction
        BY <2>1, <2>3, <3>1 DEF TypeInv, ColumnInv
      <4>2. plus(factor, inflow(place(v))) \in Fraction
        BY <4>1, PlusReduces, FractionIsValue
      <4>3. times(ALPHA, plus(factor, inflow(place(v)))) \in Fraction
        BY <4>2, TimesReduces, FractionIsValue, Constants
      <4> QED
        BY <2>2, <3>1, <4>3
    <3>2. CASE ~ \E r \in Rows : Position(r) = v
      BY <2>2, <3>2 DEF TypeInv, ColumnInv
    <3> QED
      BY <3>1, <3>2
  <2>5. pageRanks_' \in [V -> Fraction]
    BY <2>2, <2>4
  <2> QED
    BY <1>1, <1>2, <1>10, <2>5 DEF Transform, TypeInv, ResultInv, ColumnInv, IsResult
<1>11. CASE CalculateNorm
  <2>1. norm' \in Fraction
    BY <1>3, <1>11, NormFraction DEF CalculateNorm, TypeInv, ColumnInv
  <2> QED
    BY <1>1, <1>2, <1>11, <2>1 DEF CalculateNorm, TypeInv, ResultInv, ColumnInv, IsResult
<1>12. CASE CopyAndTest
  BY <1>1, <1>2, <1>12 DEF CopyAndTest, TypeInv, ResultInv, ColumnInv, IsResult
<1>13. CASE UNCHANGED vars
  BY <1>1, <1>2, <1>13 DEF vars, TypeInv, ResultInv, ColumnInv, IsResult
<1> QED
  BY <1>4, <1>5, <1>7, <1>8, <1>9, <1>10, <1>11, <1>12, <1>13 DEF Next, Step, Terminated

(* The driver's variables keep their types, whatever its jobs lose: both      *)
(* columns keep one fraction per vertex.                                      *)
THEOREM TypeCorrect == Spec => []TypeOK
<1>1. TypeInv => TypeOK
  <2> SUFFICES ASSUME TypeInv PROVE TypeOK
    OBVIOUS
  <2>1. hyperlink \in [V -> Value]
    BY SizeOfGraph, FractionIsValue DEF TypeInv
  <2> QED
    BY <2>1, FractionIsValue DEF TypeInv, ColumnInv, ResultInv, TypeOK, IsColumn, IsResult
<1> QED
  BY <1>1, TypeInit, TypeNext, PTL DEF Spec

--------------------------------------------------------------------------------
(* An iteration without a report, whatever the iterations before it lost *)

Iterated == [v \in V |-> LoopRank(V, N, graph.toList, hyperlink, pageRanks, v)]

CleanInv ==
  /\ clean = TRUE /\ pc \in {"page_job", "transform"} => factor = LoopFactor(V, N, hyperlink, pageRanks)
  /\ clean = TRUE /\ pc = "norm" => pageRanks_ = Iterated

LEMMA CleanNext == QuietInv /\ CleanInv /\ [Next]_vars => CleanInv'
<1> SUFFICES ASSUME QuietInv, CleanInv, [Next]_vars PROVE CleanInv'
  OBVIOUS
<1>1. graph' = graph /\ hyperlink' = hyperlink /\ V' = V /\ N' = N
  BY DEF Next, Step, vars, input, Refresh, JobReports, RunFactorJob, TakeFactor, RunPageRankJob,
         Transform, CalculateNorm, CopyAndTest, Terminated, V, N
<1>2. pageRanks' = pageRanks =>
        /\ LoopFactor(V', N', hyperlink', pageRanks') = LoopFactor(V, N, hyperlink, pageRanks)
        /\ Iterated' = Iterated
  BY <1>1 DEF Iterated
<1>3. CASE TakeFactor
  <2>1. clean = TRUE => factor' = LoopFactor(V, N, hyperlink, pageRanks)
    BY <1>3, FullFactorTaken DEF TakeFactor, QuietInv, FullResults
  <2> QED
    BY <1>2, <1>3, <2>1 DEF TakeFactor, CleanInv
<1>4. CASE Transform
  <2>1. ASSUME clean = TRUE PROVE pageRanks_' = Iterated
    <3>1. results = FullPage /\ factor = LoopFactor(V, N, hyperlink, pageRanks)
      BY <1>4, <2>1 DEF Transform, QuietInv, FullResults, CleanInv
    <3> QED
      BY <1>4, <3>1, FullPageCopied DEF QuietInv, Iterated, LoopRank
  <2> QED
    BY <1>2, <1>4, <2>1 DEF Transform, CleanInv
<1>5. CASE JobReports
  BY <1>5 DEF JobReports, CleanInv
<1>6. CASE RunPageRankJob
  BY <1>2, <1>6 DEF RunPageRankJob, CleanInv
<1>7. CASE Refresh \/ RunFactorJob \/ CalculateNorm \/ CopyAndTest
  BY <1>7 DEF Refresh, RunFactorJob, CalculateNorm, CopyAndTest, CleanInv
<1>8. CASE UNCHANGED vars
  BY <1>2, <1>8 DEF vars, CleanInv
<1> QED
  BY <1>3, <1>4, <1>5, <1>6, <1>7, <1>8 DEF Next, Step, Terminated

(* The arithmetic of PowerIteration is that of CppPageRank. *)
LEMMA PowerArithmetic ==
  /\ \A p, q : Power!frac(p, q) = frac(p, q)
  /\ \A x, y : Power!plus(x, y) = plus(x, y)
  /\ \A x, y : Power!times(x, y) = times(x, y)
  /\ \A terms : Power!Accumulate(terms) = Accumulate(terms)
  /\ Power!ALPHA = ALPHA
  /\ \A list : Power!OutDegree(list) = OutDegree(list)
<1>1. Power!Value = Value /\ Power!Zero = Zero
  BY DEF Value, Power!Value, Zero, Power!Zero
<1>2. Power!gcd = gcd
  BY DEF gcd, Power!gcd
<1>3. Power!lowest = lowest
  BY <1>2 DEF lowest, Power!lowest
<1>4. Power!sum = sum
  BY <1>1, <1>2, <1>3 DEF sum, Power!sum, Common, Power!Common, frac, Power!frac
<1>5. Power!product = product
  BY <1>1, <1>3 DEF product, Power!product, frac, Power!frac
<1>6. \A terms : Power!Accumulate(terms) = Accumulate(terms)
  BY <1>1, <1>4, Zenon DEF Accumulate, Power!Accumulate, FoldFunction, Power!FoldFunction,
     FoldFunctionOnSet, Power!FoldFunctionOnSet, MapThenFoldSet, Power!MapThenFoldSet,
     plus, Power!plus
<1>7. \A list : Power!OutDegree(list) = OutDegree(list)
  BY DEF OutDegree, Power!OutDegree, MapThenSumSet, Power!MapThenSumSet,
       MapThenFoldSet, Power!MapThenFoldSet
<1> QED
  BY <1>3, <1>4, <1>5, <1>6, <1>7
     DEF frac, Power!frac, plus, Power!plus, times, Power!times, ALPHA, Power!ALPHA

LEMMA IteratedIsMultiplied ==
  ASSUME TypeInv
  PROVE  Iterated = Power!Multiplied(pageRanks)
<1>1. IsFiniteSet(V) /\ N \in Nat \ {0}
  BY SizeOfGraph DEF TypeInv
<1>2. ASSUME NEW v \in V
      PROVE  LoopRank(V, N, graph.toList, hyperlink, pageRanks, v)
               = GoogleRank(V, N, graph.toList, pageRanks, v)
  <2> DEFINE list == graph.toList
  <2>1. list \in [V -> [V -> Nat]] /\ pageRanks \in [V -> Fraction]
    BY DEF TypeInv, InputInv, IsGraphOn, ColumnInv
  <2>2. hyperlink = calculateHyperLinkColumn(list)
    BY DEF TypeInv, InputInv
  <2> HIDE DEF list
  <2>3. LoopRank(V, N, list, hyperlink, pageRanks, v) = GoogleRank(V, N, list, pageRanks, v)
    BY <1>1, <2>1, <2>2, LoopIsGoogle
  <2> QED
    BY <2>3 DEF list
<1>3. Power!V = V /\ Power!N = N
  <2>1. DOMAIN graph.toList = V
    BY DEF TypeInv, InputInv, IsGraphOn
  <2> QED
    BY <2>1 DEF Power!V, Power!N, N, Cardinality, Power!Cardinality
<1>4. \A u, v : Power!Google(u, v) =
        GoogleEntry(graph.toList[u][v], OutDegree(graph.toList[u]), N)
  BY <1>3, PowerArithmetic DEF Power!Google, GoogleEntry
<1>5. Power!Multiplied(pageRanks) = [v \in V |-> GoogleRank(V, N, graph.toList, pageRanks, v)]
  BY <1>3, <1>4, PowerArithmetic DEF Power!Multiplied, Power!Total, GoogleRank
<1> QED
  BY <1>2, <1>5 DEF Iterated

(* What a job loses stays in its iteration: the next iteration whose jobs     *)
(* report nothing multiplies the column it starts from with the Google        *)
(* matrix; nothing is left in the datasource, the results or pageRanks_.      *)
THEOREM CleanIterationHolds == Spec => []CleanIteration
<1>1. Init => CleanInv
  BY DEF Init, CleanInv
<1>2. TypeInv /\ CleanInv => CleanIteration
  BY IteratedIsMultiplied DEF CleanInv, CleanIteration, TypeInv, ColumnInv
<1> QED
  BY <1>1, <1>2, QuietInit, QuietNext, TypeInit, TypeNext, CleanNext, PTL DEF Spec
================================================================================
