---------------------------- MODULE MpiSelf_proofs ----------------------------
(***************************************************************************)
(* Theorems of MpiSelf, for every set of input files and every number of   *)
(* processes.                                                              *)
(***************************************************************************)
EXTENDS MpiSelf, WebGraph_proofs

(* The inductive invariant: the input is never changed, and its vertices are  *)
(* an interval from 0.                                                        *)
GraphInv == Size \in Sizes /\ \E m \in Nat : V = 0 .. m

LEMMA GraphInvInit == Init => GraphInv
<1> SUFFICES ASSUME Init PROVE GraphInv
  OBVIOUS
<1>1. PICK file \in Files : graph = Graph(file)
  BY DEF Init
<1>2. DOMAIN graph.toList = Vertices(file)
  BY <1>1 DEF Graph
<1>3. V = DOMAIN graph.toList
  BY DEF Init, V, calculateHyperLinkColumn
<1>4. Size \in Sizes
  BY DEF Init
<1> QED
  BY <1>1, <1>2, <1>3, <1>4, VerticesOfFile, FilesAssumption DEF GraphInv

LEMMA GraphInvNext == GraphInv /\ [Next]_vars => GraphInv'
<1> SUFFICES ASSUME GraphInv, [Next]_vars PROVE GraphInv'
  OBVIOUS
<1>1. hyperlink' = hyperlink /\ Size' = Size
  BY DEF Next, vars, input, Process, CalculateFactor, NoFactor, Iterate, CalculateNorm,
         CopyAndTest, OpenFile, PrintLine, CloseFile, Kill, Terminated
<1> QED
  BY <1>1 DEF GraphInv, V

THEOREM GraphInvariant == Spec => []GraphInv
BY GraphInvInit, GraphInvNext, PTL DEF Spec

LEMMA NumVertices == GraphInv => N \in Nat \ {0} /\ Size \in Nat \ {0}
<1> SUFFICES ASSUME GraphInv PROVE N \in Nat \ {0} /\ Size \in Nat \ {0}
  OBVIOUS
<1>1. PICK m \in Nat : V = 0 .. m
  BY DEF GraphInv
<1>2. N \in Nat \ {0}
  BY <1>1, FS_Interval DEF N
<1>3. Size \in Nat \ {0}
  BY SizesAssumption DEF GraphInv
<1> QED
  BY <1>2, <1>3

(* In every run, whatever the graph and however many processes mpirun starts, *)
(* the processes divide the vertices: none is mapped twice or left out, and   *)
(* no key is read past the columns.                                           *)
THEOREM WorkDividedHolds == Spec => []WorkDivided
<1>1. GraphInv => WorkDivided
  BY NumVertices, LoadsAlwaysDivide DEF WorkDivided
<1> QED
  BY <1>1, GraphInvariant, PTL

--------------------------------------------------------------------------------
(* With at most as many processes as keys every load has a key. *)
LEMMA LoadNotEmpty ==
  ASSUME NEW n \in Nat, NEW s \in Nat \ {0}, s <= n, NEW p \in 0 .. s-1
  PROVE  KeysOf(getProcessLoad(n, s, p)) # {}
<1> DEFINE q == n \div s
           k == p * q
<1>1. q \in Nat /\ s * q <= n /\ n < s * q + s
  BY Division
<1> HIDE DEF q
<1>2. q >= 1
  <2>1. q # 0
    BY <1>1, SMT
  <2> QED
    BY <2>1, <1>1
<1>3. p \in Nat /\ p + 1 \in Nat /\ s \in Nat /\ p + 1 <= s
  OBVIOUS
<1>4. p * q \in Nat /\ (p + 1) * q <= s * q /\ s * q \in Nat
  BY <1>1, <1>3, Monotone
<1>5. (p + 1) * q = p * q + q
  BY <1>1, <1>3, NextOffset
<1>6. k \in Int /\ k < k + q /\ k < n
  BY <1>1, <1>2, <1>4, <1>5, SMT
<1>7. k \in KeysOf(getProcessLoad(n, s, p))
  BY <1>6, LoadShape DEF q
<1> QED
  BY <1>7

CrashInv == pc \in [Ranks -> Labels] /\ GraphInv /\ CrashNeedsTooManyRanks

LEMMA CrashInvNext == CrashInv /\ [Next]_vars => CrashInv'
<1> SUFFICES ASSUME CrashInv, [Next]_vars PROVE CrashInv'
  OBVIOUS
<1>1. GraphInv'
  BY GraphInvNext DEF CrashInv
<1>2. hyperlink' = hyperlink /\ N' = N /\ Size' = Size /\ Ranks' = Ranks
  BY DEF Next, vars, input, Process, CalculateFactor, NoFactor, Iterate, CalculateNorm,
         CopyAndTest, OpenFile, PrintLine, CloseFile, Kill, Terminated, N, V, Ranks
<1>3. CASE UNCHANGED pc
  BY <1>1, <1>2, <1>3 DEF CrashInv, CrashNeedsTooManyRanks
<1>4. ASSUME NEW p \in Ranks, NEW label \in Labels, Goto(p, label), label # "crashed"
      PROVE  CrashInv'
  BY <1>1, <1>2, <1>4 DEF CrashInv, CrashNeedsTooManyRanks, Goto
<1>5. ASSUME NEW p \in Ranks, NoFactor(p)
      PROVE  CrashInv'
  <2>1. N \in Nat \ {0} /\ Size \in Nat \ {0}
    BY NumVertices DEF CrashInv
  <2>2. Size > N
    <3>1. OwnKeys(p) = {} /\ p \in 0 .. Size-1 /\ Size \in Nat \ {0}
      BY <1>5, <2>1 DEF NoFactor, Ranks
    <3>2. ~ (Size <= N)
      BY <3>1, <2>1, LoadNotEmpty DEF OwnKeys
    <3> QED
      BY <3>1, <3>2, <2>1
  <2>3. pc' \in [Ranks -> Labels]
    BY <1>5 DEF NoFactor, Goto, CrashInv, Labels
  <2> QED
    BY <1>1, <1>2, <2>2, <2>3 DEF CrashInv, CrashNeedsTooManyRanks
<1>6. ASSUME NEW p \in Ranks, CopyAndTest(p)
      PROVE  CrashInv'
  <2>1. Goto(p, "open") \/ Goto(p, "factor")
    BY <1>6 DEF CopyAndTest, Goto
  <2> QED
    BY <2>1, <1>4 DEF Labels
<1>7. ASSUME NEW p \in Ranks, Process(p) \/ Kill(p)
      PROVE  CrashInv'
  <2>1. CASE CalculateFactor(p)
    BY <2>1, <1>4 DEF CalculateFactor, Labels
  <2>2. CASE NoFactor(p)
    BY <2>2, <1>5
  <2>3. CASE Iterate(p)
    BY <2>3, <1>4 DEF Iterate, Labels
  <2>4. CASE CalculateNorm(p)
    BY <2>4, <1>4 DEF CalculateNorm, Labels
  <2>5. CASE CopyAndTest(p)
    BY <2>5, <1>6
  <2>6. CASE OpenFile(p)
    BY <2>6, <1>4 DEF OpenFile, Labels
  <2>7. CASE PrintLine(p)
    BY <2>7, <1>3 DEF PrintLine
  <2>8. CASE CloseFile(p)
    BY <2>8, <1>4 DEF CloseFile, Labels
  <2>9. CASE Kill(p)
    BY <2>9, <1>4 DEF Kill, Labels
  <2> QED
    BY <1>7, <2>1, <2>2, <2>3, <2>4, <2>5, <2>6, <2>7, <2>8, <2>9 DEF Process
<1> QED
  BY <1>3, <1>7 DEF Next, Terminated, vars

(* A process finds its factor job without a result only when mpirun started   *)
(* more processes than there are vertices.                                    *)
THEOREM CrashNeedsTooManyRanksHolds == Spec => []CrashNeedsTooManyRanks
<1>1. Init => CrashInv
  <2> SUFFICES ASSUME Init PROVE CrashInv
    OBVIOUS
  <2>1. pc = [p \in Ranks |-> "factor"]
    BY DEF Init
  <2> QED
    BY <2>1, GraphInvInit DEF CrashInv, CrashNeedsTooManyRanks, Labels
<1>2. CrashInv => CrashNeedsTooManyRanks
  BY DEF CrashInv
<1> QED
  BY <1>1, <1>2, CrashInvNext, PTL DEF Spec

--------------------------------------------------------------------------------
(* The arithmetic of SerialPageRank is that of MpiSelf. *)

LEMMA SameFractions ==
  /\ Serial!Value = Value /\ Serial!Zero = Zero
  /\ Serial!gcd = gcd /\ Serial!lowest = lowest
  /\ Serial!sum = sum /\ Serial!product = product
<1>1. Serial!Value = Value /\ Serial!Zero = Zero
  BY DEF Value, Serial!Value, Zero, Serial!Zero
<1>2. Serial!gcd = gcd
  BY DEF gcd, Serial!gcd
<1>3. Serial!lowest = lowest
  BY <1>2 DEF lowest, Serial!lowest
<1>4. Serial!sum = sum
  BY <1>1, <1>2, <1>3
     DEF sum, Serial!sum, Common, Serial!Common, frac, Serial!frac
<1>5. Serial!product = product
  BY <1>1, <1>3 DEF product, Serial!product, frac, Serial!frac
<1> QED
  BY <1>1, <1>2, <1>3, <1>4, <1>5

LEMMA SameArithmetic ==
  /\ \A p, q : Serial!frac(p, q) = frac(p, q)
  /\ \A x, y : Serial!plus(x, y) = plus(x, y)
  /\ \A x, y : Serial!times(x, y) = times(x, y)
  /\ \A x, y : Serial!absDiff(x, y) = absDiff(x, y)
  /\ \A x, y : Serial!AtMost(x, y) = AtMost(x, y)
  /\ \A n, x : Serial!Multiple(n, x) = Multiple(n, x)
<1>1. \A p, q : Serial!frac(p, q) = frac(p, q)
  BY SameFractions DEF frac, Serial!frac
<1>2. \A x, y : Serial!plus(x, y) = plus(x, y)
  BY SameFractions DEF plus, Serial!plus
<1>3. \A x, y : Serial!times(x, y) = times(x, y)
  BY SameFractions DEF times, Serial!times
<1>4. \A x, y : Serial!absDiff(x, y) = absDiff(x, y)
  BY <1>1, SameFractions DEF absDiff, Serial!absDiff, Common, Serial!Common
<1>5. \A x, y : Serial!AtMost(x, y) = AtMost(x, y)
  BY SameFractions DEF AtMost, Serial!AtMost, Common, Serial!Common
<1>6. \A n, x : Serial!Multiple(n, x) = Multiple(n, x)
  BY <1>3 DEF Multiple, Serial!Multiple
<1> QED
  BY <1>1, <1>2, <1>3, <1>4, <1>5, <1>6

LEMMA SameAccumulate == \A terms : Serial!Accumulate(terms) = Accumulate(terms)
<1>1. Serial!sum = sum /\ Serial!Zero = Zero
  BY SameFractions
<1> QED
  BY <1>1, Zenon DEF Accumulate, Serial!Accumulate, FoldFunction, Serial!FoldFunction,
     FoldFunctionOnSet, Serial!FoldFunctionOnSet, MapThenFoldSet, Serial!MapThenFoldSet,
     plus, Serial!plus

LEMMA SameIteration ==
  /\ Serial!ALPHA = ALPHA /\ Serial!TOL = TOL
  /\ \A h, x : Serial!FactorValue(h, x) = FactorValue(h, x)
  /\ \A a, b : Serial!calculateNorm(a, b) = calculateNorm(a, b)
  /\ \A n : Serial!getInitPageRank(n) = getInitPageRank(n)
<1>1. Serial!ALPHA = ALPHA /\ Serial!TOL = TOL
  BY SameArithmetic DEF ALPHA, Serial!ALPHA, TOL, Serial!TOL
<1>2. \A h, x : Serial!FactorValue(h, x) = FactorValue(h, x)
  BY SameFractions, SameArithmetic
     DEF FactorValue, Serial!FactorValue, BETA, Serial!BETA, GAMMA, Serial!GAMMA
<1>3. \A a, b : Serial!calculateNorm(a, b) = calculateNorm(a, b)
  BY SameArithmetic, SameAccumulate DEF calculateNorm, Serial!calculateNorm, Total, Serial!Total
<1>4. \A n : Serial!getInitPageRank(n) = getInitPageRank(n)
  BY DEF getInitPageRank, Serial!getInitPageRank
<1> QED
  BY <1>1, <1>2, <1>3, <1>4

LEMMA SameGraph ==
  /\ \A file : Serial!Graph(file) = Graph(file)
  /\ \A list : Serial!calculateHyperLinkColumn(list) = calculateHyperLinkColumn(list)
<1>1. \A S : Serial!Max(S) = Max(S)
  BY DEF Max, Serial!Max
<1>2. \A file : Serial!Vertices(file) = Vertices(file)
  BY <1>1 DEF Vertices, Serial!Vertices, numVertices, Serial!numVertices,
       VertexList, Serial!VertexList
<1>3. \A file, u, v : Serial!Multiplicity(file, u, v) = Multiplicity(file, u, v)
  BY DEF Multiplicity, Serial!Multiplicity, Cardinality, Serial!Cardinality
<1>4. \A list : Serial!OutDegree(list) = OutDegree(list)
  BY DEF OutDegree, Serial!OutDegree, MapThenSumSet, Serial!MapThenSumSet,
       MapThenFoldSet, Serial!MapThenFoldSet
<1> QED
  BY <1>2, <1>3, <1>4, SameFractions
     DEF Graph, Serial!Graph, calculateHyperLinkColumn, Serial!calculateHyperLinkColumn

--------------------------------------------------------------------------------
(* The refinement: with one process, the library is a serial one. *)

(* the input is a file's graph and never changes *)
InputInv ==
  /\ \E file \in Files : graph = Graph(file)
  /\ hyperlink = calculateHyperLinkColumn(graph.toList)

Shape ==
  /\ DOMAIN pageRanks = Ranks /\ DOMAIN pageRanks_ = Ranks
  /\ DOMAIN factor = Ranks /\ DOMAIN norm = Ranks

(* Alone, a process is never killed. *)
AloneInv == CrashInv /\ InputInv /\ Shape /\ (Size = 1 => pc[0] \notin {"crashed", "killed"})

LEMMA AloneInit == Init => AloneInv
<1> SUFFICES ASSUME Init PROVE AloneInv
  OBVIOUS
<1>1. pc = [p \in Ranks |-> "factor"]
  BY DEF Init
<1>2. CrashInv
  BY <1>1, GraphInvInit DEF CrashInv, CrashNeedsTooManyRanks, Labels
<1>3. Size = 1 => pc[0] \notin {"crashed", "killed"}
  BY <1>1 DEF Ranks
<1> QED
  BY <1>2, <1>3 DEF Init, AloneInv, InputInv, Shape

LEMMA AloneNext == AloneInv /\ [Next]_vars => AloneInv'
<1> SUFFICES ASSUME AloneInv, [Next]_vars PROVE AloneInv'
  OBVIOUS
<1>1. CrashInv'
  BY CrashInvNext DEF AloneInv
<1>2. graph' = graph /\ hyperlink' = hyperlink /\ Size' = Size /\ Ranks' = Ranks
  BY DEF Next, vars, input, Process, CalculateFactor, NoFactor, Iterate, CalculateNorm,
         CopyAndTest, OpenFile, PrintLine, CloseFile, Kill, Terminated, Ranks
<1>3. InputInv'
  BY <1>2 DEF AloneInv, InputInv
<1>4. Shape'
  BY <1>2 DEF AloneInv, Shape, Next, vars, Process, CalculateFactor, NoFactor, Iterate,
         CalculateNorm, CopyAndTest, OpenFile, PrintLine, CloseFile, Kill, Terminated
<1>5. ASSUME Size = 1
      PROVE  pc'[0] \notin {"crashed", "killed"}
  <2>1. Ranks = {0}
    BY <1>5 DEF Ranks
  <2>2. pc'[0] # "crashed"
    <3>1. N' \in Nat \ {0} /\ Size' = 1
      BY <1>1, <1>2, <1>5, NumVertices DEF CrashInv, AloneInv, N, V
    <3> QED
      BY <1>1, <1>2, <2>1, <3>1 DEF CrashInv, CrashNeedsTooManyRanks
  <2>3. pc'[0] # "killed"
    <3>1. pc \in [Ranks -> Labels] /\ pc[0] \notin {"crashed", "killed"}
      BY <1>5 DEF AloneInv, CrashInv
    <3> QED
      BY <2>1, <3>1 DEF Next, vars, Process, CalculateFactor, NoFactor, Iterate, CalculateNorm,
         CopyAndTest, OpenFile, PrintLine, CloseFile, Kill, Terminated, Goto
  <2> QED
    BY <2>2, <2>3
<1> QED
  BY <1>1, <1>2, <1>3, <1>4, <1>5 DEF AloneInv

(* One process has all keys. *)
LEMMA AllKeys ==
  ASSUME AloneInv, Size = 1
  PROVE  OwnKeys(0) = V /\ Ranks = {0}
<1>1. PICK m \in Nat : V = 0 .. m
  BY DEF AloneInv, CrashInv, GraphInv
<1>2. N = m + 1
  BY <1>1, FS_Interval DEF N
<1>3. LoadsDivide(N, 1)
  BY <1>2, LoadsAlwaysDivide
<1>4. KeysOf(getProcessLoad(N, 1, 0)) = 0 .. N-1
  <2>1. 0 .. 1-1 = {0}
    OBVIOUS
  <2>2. /\ \A p \in {0} : KeysOf(getProcessLoad(N, 1, p)) \subseteq 0 .. N-1
        /\ \A k \in 0 .. N-1 : \E p \in {0} : k \in KeysOf(getProcessLoad(N, 1, p))
    BY <1>3, <2>1 DEF LoadsDivide
  <2> QED
    BY <2>2
<1> QED
  BY <1>1, <1>2, <1>4 DEF OwnKeys, Ranks

(* the adjacency lists name every edge at both of its ends *)
LEMMA BothLists ==
  ASSUME InputInv, NEW u \in V, NEW v \in V
  PROVE  graph.fromList[v][u] = graph.toList[u][v]
BY DEF InputInv, Graph, V, calculateHyperLinkColumn

LEMMA StepIsSerial ==
  ASSUME AloneInv, Size = 1, [Next]_vars
  PROVE  [Serial!Next]_(Serial!vars)
<1>1. Ranks = {0} /\ OwnKeys(0) = V
  BY AllKeys
<1>2. /\ pc \in [Ranks -> Labels] /\ pc[0] \notin {"crashed", "killed"}
      /\ DOMAIN pageRanks = Ranks /\ DOMAIN pageRanks_ = Ranks
      /\ DOMAIN factor = Ranks /\ DOMAIN norm = Ranks
  BY DEF AloneInv, CrashInv, Shape
<1>3. Serial!V = V /\ Serial!N = N
  BY DEF V, Serial!V, N, Serial!N, Cardinality, Serial!Cardinality
<1>4. CASE CalculateFactor(0)
  <2>1. /\ pc[0] = "factor" /\ pc'[0] = "iterate"
        /\ factor'[0] =
             times(Accumulate([v \in V |-> FactorValue(hyperlink[v], pageRanks[0][v])]), <<1, N>>)
        /\ UNCHANGED <<graph, hyperlink, pageRanks, pageRanks_, norm>>
    BY <1>1, <1>2, <1>4 DEF CalculateFactor, Goto, input, Total
  <2>2. Serial!CalculateFactor
    BY <1>3, <2>1, SameArithmetic, SameAccumulate, SameIteration
       DEF Serial!CalculateFactor, Serial!Total
  <2> QED
    BY <2>2 DEF Serial!Next
<1>5. CASE Iterate(0)
  <2>1. Produced(0) = V
    BY <1>1 DEF Produced
  <2>2. /\ pc[0] = "iterate" /\ pc'[0] = "norm"
        /\ pageRanks_'[0] = [v \in V |-> NewRank(0, v)]
        /\ UNCHANGED <<graph, hyperlink, pageRanks, factor, norm>>
    BY <1>1, <1>2, <1>5, <2>1 DEF Iterate, Goto, input
  <2>3. ASSUME NEW v \in V
        PROVE  NewRank(0, v) = Serial!times(Serial!ALPHA,
                                  Serial!plus(factor[0], Serial!Inflow(pageRanks[0], v)))
    <3> DEFINE row == [u \in V |-> Multiple(graph.toList[u][v], times(hyperlink[u], pageRanks[0][u]))]
    <3>1. Combined(0, v) = Accumulate(row)
      BY <1>1 DEF Combined, Total
    <3>2. Serial!Inflow(pageRanks[0], v) =
            Accumulate([u \in V |-> Multiple(graph.fromList[v][u], times(hyperlink[u], pageRanks[0][u]))])
      BY <1>3, SameArithmetic, SameAccumulate DEF Serial!Inflow, Serial!Total
    <3>3. [u \in V |-> Multiple(graph.fromList[v][u], times(hyperlink[u], pageRanks[0][u]))] = row
      BY BothLists DEF AloneInv
    <3> QED
      BY <3>1, <3>2, <3>3, SameArithmetic, SameIteration DEF NewRank
  <2>4. Serial!Transform
    BY <1>3, <2>2, <2>3 DEF Serial!Transform
  <2> QED
    BY <2>4 DEF Serial!Next
<1>6. CASE CalculateNorm(0)
  <2>1. /\ pc[0] = "norm" /\ pc'[0] = "test"
        /\ norm'[0] = calculateNorm(pageRanks[0], pageRanks_[0])
        /\ UNCHANGED <<graph, hyperlink, pageRanks, pageRanks_, factor>>
    BY <1>1, <1>2, <1>6 DEF CalculateNorm, Goto, input
  <2>2. Serial!CalculateNorm
    BY <2>1, SameIteration DEF Serial!CalculateNorm
  <2> QED
    BY <2>2 DEF Serial!Next
<1>7. CASE CopyAndTest(0)
  <2>1. /\ pc[0] = "test" /\ pc'[0] = IF AtMost(norm[0], TOL) THEN "open" ELSE "factor"
        /\ pageRanks'[0] = pageRanks_[0]
        /\ UNCHANGED <<graph, hyperlink, pageRanks_, factor, norm>>
    BY <1>1, <1>2, <1>7 DEF CopyAndTest, Goto, input
  <2>2. Serial!CopyAndTest
    BY <2>1, SameArithmetic, SameIteration DEF Serial!CopyAndTest
  <2> QED
    BY <2>2 DEF Serial!Next
<1>8. CASE OpenFile(0) \/ PrintLine(0) \/ CloseFile(0)
  BY <1>1, <1>2, <1>8 DEF OpenFile, PrintLine, CloseFile, Goto, input, Serial!vars
<1>9. CASE UNCHANGED vars
  BY <1>9 DEF vars, input, Serial!vars
<1>10. ~NoFactor(0) /\ ~Kill(0)
  <2>1. V # {}
    BY DEF AloneInv, CrashInv, GraphInv
  <2> QED
    BY <1>1, <1>2, <2>1 DEF NoFactor, Kill
<1> QED
  BY <1>1, <1>4, <1>5, <1>6, <1>7, <1>8, <1>9, <1>10 DEF Next, Process, Terminated

LEMMA InitIsSerial == Init /\ Size = 1 => Serial!Init
<1> SUFFICES ASSUME Init, Size = 1 PROVE Serial!Init
  OBVIOUS
<1>1. 0 \in Ranks
  BY DEF Ranks
<1>2. Serial!N = N
  BY DEF V, Serial!V, N, Serial!N, Cardinality, Serial!Cardinality
<1> QED
  BY <1>1, <1>2, SameFractions, SameIteration, SameGraph DEF Init, Serial!Init

(* With one process the pipe of Generator, MapTask, Combiner, Distributor,    *)
(* ReduceTask and Result computes what src/Serial/PageRank.cpp computes, on   *)
(* every graph: the comment of Job::run, for every value of the constants.    *)
THEOREM ImplementsSerialHolds == Spec => ImplementsSerial
<1>1. AloneInv /\ [Next]_vars => (Size = 1 => [Serial!Next]_(Serial!vars))
  BY StepIsSerial
<1>2. Init => (Size = 1 => Serial!Init)
  BY InitIsSerial
<1> QED
  BY <1>1, <1>2, AloneInit, AloneNext, PTL DEF Spec, ImplementsSerial
================================================================================
