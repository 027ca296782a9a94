-------------------------------- MODULE MpiSelf --------------------------------
(***************************************************************************)
(* The program of "src/MPI Self" under mpirun: Size processes read the     *)
(* same graph, and each runs PageRank::calculatePageRank over jobs that    *)
(* generate only its own share of the map keys (Job::getProcessLoad).      *)
(* The processes exchange nothing: the pipe Generator -> MapTask ->        *)
(* Combiner -> Distributor -> ReduceTask -> Result stays inside a process. *)
(* At the end every process writes its column to the one output file.      *)
(***************************************************************************)
EXTENDS WebGraph, Workload

CONSTANTS
  Files,     \* input files: non-empty sequences of edges
  Sizes,     \* the numbers of processes that mpirun may be asked for (-np)
  Hole       \* a line of the output file that no one has written

ASSUME FilesAssumption == \A file \in Files : IsFile(file)
ASSUME SizesAssumption == Sizes \subseteq Nat \ {0}
ASSUME HoleAssumption  == Hole \notin Value

VARIABLES
  Size,                   \* processes of MPI_COMM_WORLD
  graph, hyperlink,       \* the input, equal in all processes
  pc,                     \* next statement of each process
  pageRanks, pageRanks_, factor, norm,
  line,                   \* next line the process prints
  output                  \* line of the output file |-> its value

input == <<Size, graph, hyperlink>>
vars == <<input, pc, pageRanks, pageRanks_, factor, norm, line, output>>

Ranks == 0 .. Size - 1
V == DOMAIN hyperlink
N == Cardinality(V)

(* the keys that process p generates and maps *)
OwnKeys(p) == KeysOf(getProcessLoad(N, Size, p))

(* mutant of Produced: no ZERO is emitted *)
ProducedByEdges(p) == {v \in V : \E u \in OwnKeys(p) : graph.toList[u][v] > 0}

(* the reduce keys of process p: MapPageRank emits ZERO for its own keys *)
Produced(p) == {v \in V : v \in OwnKeys(p) \/ \E u \in OwnKeys(p) : graph.toList[u][v] > 0}

(* the values that MapPageRank emitted here for v, brought together by        *)
(* Combiner and Distributor and summed by ReducePageRank                      *)
Combined(p, v) ==
  Total(LAMBDA u : Multiple(graph.toList[u][v], times(hyperlink[u], pageRanks[p][u])),
        OwnKeys(p))

(* getPageRanks, for one result *)
NewRank(p, v) == times(ALPHA, plus(factor[p], Combined(p, v)))

OutFile == INSTANCE PageRankFile

Goto(p, label) == pc' = [pc EXCEPT ![p] = label]

--------------------------------------------------------------------------------
(* Mutants of the definitions below *)

CopyForgotten(p) ==          \* the loop goes on from the same column
  /\ pc[p] = "test"
  /\ Goto(p, IF AtMost(norm[p], TOL) THEN "open" ELSE "factor")
  /\ UNCHANGED <<input, pageRanks, pageRanks_, factor, norm, line, output>>

--------------------------------------------------------------------------------
Init ==
  /\ Size \in Sizes
  /\ \E file \in Files : graph = Graph(file)
  /\ hyperlink = calculateHyperLinkColumn(graph.toList)
  /\ pc = [p \in Ranks |-> "factor"]
  /\ pageRanks = [p \in Ranks |-> getInitPageRank(N)]
  /\ pageRanks_ = pageRanks
  /\ factor = [p \in Ranks |-> Zero] /\ norm = [p \in Ranks |-> Zero]
  /\ line = [p \in Ranks |-> 0]
  /\ output = OutFile!EmptyFile(V)

CalculateFactor(p) ==
  /\ pc[p] = "factor" /\ OwnKeys(p) # {}
  /\ factor' = [factor EXCEPT ![p] =
       times(Total(LAMBDA v : FactorValue(hyperlink[v], pageRanks[p][v]), OwnKeys(p)), <<1, N>>)]
  /\ Goto(p, "iterate")
  /\ UNCHANGED <<input, pageRanks, pageRanks_, norm, line, output>>

(* getFactor reads input[0] of an empty result: there is no element there *)
NoFactor(p) ==
  /\ pc[p] = "factor" /\ OwnKeys(p) = {}
  /\ Goto(p, "crashed")
  /\ UNCHANGED <<input, pageRanks, pageRanks_, factor, norm, line, output>>

(* only the keys that were reduced here get a new value *)
Iterate(p) ==
  /\ pc[p] = "iterate"
  /\ pageRanks_' = [pageRanks_ EXCEPT ![p] =
       [v \in V |-> IF v \in Produced(p) THEN NewRank(p, v) ELSE @[v]]]
  /\ Goto(p, "norm")
  /\ UNCHANGED <<input, pageRanks, factor, norm, line, output>>

CalculateNorm(p) ==
  /\ pc[p] = "norm"
  /\ norm' = [norm EXCEPT ![p] = calculateNorm(pageRanks[p], pageRanks_[p])]
  /\ Goto(p, "test")
  /\ UNCHANGED <<input, pageRanks, pageRanks_, factor, line, output>>

(* pageRanks = pageRanks_, then the loop's condition, on this process's norm *)
CopyAndTest(p) ==
  /\ pc[p] = "test"
  /\ pageRanks' = [pageRanks EXCEPT ![p] = pageRanks_[p]]
  /\ Goto(p, IF AtMost(norm[p], TOL) THEN "open" ELSE "factor")
  /\ UNCHANGED <<input, pageRanks_, factor, norm, line, output>>

(* printPageRank *)
OpenFile(p) ==
  /\ pc[p] = "open"
  /\ OutFile!Open(V)
  /\ Goto(p, "print")
  /\ UNCHANGED <<input, pageRanks, pageRanks_, factor, norm>>

PrintLine(p) ==
  /\ pc[p] = "print"
  /\ OutFile!WriteLine(p, pageRanks[p])
  /\ UNCHANGED <<input, pc, pageRanks, pageRanks_, factor, norm>>

CloseFile(p) ==
  /\ pc[p] = "print" /\ OutFile!Printed(p, pageRanks[p])
  /\ Goto(p, "done")
  /\ UNCHANGED <<input, pageRanks, pageRanks_, factor, norm, line, output>>

(* mpirun kills the other processes when one has crashed *)
Kill(p) ==
  /\ \E q \in Ranks : pc[q] = "crashed"
  /\ pc[p] \notin {"done", "crashed", "killed"}
  /\ Goto(p, "killed")
  /\ UNCHANGED <<input, pageRanks, pageRanks_, factor, norm, line, output>>

Ended(p) == pc[p] \in {"done", "crashed", "killed"}

Terminated == (\A p \in Ranks : Ended(p)) /\ UNCHANGED vars

Process(p) ==
  \/ CalculateFactor(p) \/ NoFactor(p) \/ Iterate(p) \/ CalculateNorm(p) \/ CopyAndTest(p)
  \/ OpenFile(p) \/ PrintLine(p) \/ CloseFile(p)

Next == (\E p \in Ranks : Process(p) \/ Kill(p)) \/ Terminated

Spec == Init /\ [][Next]_vars

(* no process is stopped for ever *)
FairSpec ==
  Spec /\ \A p \in UNION {0 .. s - 1 : s \in Sizes} : WF_vars(p \in Ranks /\ Process(p))

--------------------------------------------------------------------------------
Labels == {"factor", "iterate", "norm", "test", "open", "print", "done", "crashed", "killed"}

(* Types; every process keeps one entry per vertex, produced here or not. *)
TypeOK ==
  /\ pc \in [Ranks -> Labels]
  /\ pageRanks \in [Ranks -> [V -> Value]] /\ pageRanks_ \in [Ranks -> [V -> Value]]
  /\ factor \in [Ranks -> Value] /\ norm \in [Ranks -> Value]
  /\ line \in [Ranks -> 0 .. N]
  /\ output \in [V -> Value \cup {Hole}]

(* With one process the library is a serial one, as the comment of Job::run   *)
(* says, and computes what src/Serial/PageRank.cpp computes.                  *)
Serial == INSTANCE SerialPageRank WITH
  pc <- CASE pc[0] = "iterate" -> "transform"
          [] pc[0] \in {"open", "print"} -> "done"
          [] OTHER -> pc[0],
  pageRanks <- pageRanks[0], pageRanks_ <- pageRanks_[0],
  factor <- factor[0], norm <- norm[0]

ImplementsSerial ==
  /\ Size = 1 => Serial!Init
  /\ [][Size = 1 => [Serial!Next]_(Serial!vars)]_vars

(* The processes divide the vertices among them: each is mapped by one        *)
(* process, and none reads past the columns (getProcessLoad, Generator::run). *)
WorkDivided == LoadsDivide(N, Size)

(* A process fails for want of keys only if there are more processes than     *)
(* vertices.                                                                  *)
CrashNeedsTooManyRanks == (\E p \in Ranks : pc[p] = "crashed") => Size > N

(* README.md: "For MPIBase and MPISelf mpirun must be used ... where          *)
(* {NUM_PROC} is the number of processors", and the output is the PageRank of *)
(* the web pages: stationary under the Google matrix up to TOL.               *)
OutputIsPageRank ==
  (\A p \in Ranks : pc[p] = "done") =>
    AtMost(calculateNorm(output, Serial!Power!Multiplied(output)), times(ALPHA, TOL))
================================================================================
