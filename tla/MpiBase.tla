-------------------------------- MODULE MpiBase --------------------------------
(***************************************************************************)
(* The program of "src/MPI Base" under mpirun: every process holds the     *)
(* whole column and runs PageRank::calculatePageRank; each iteration is    *)
(* two map-reduces over the mrmpi library, one for the factor and one for  *)
(* the new ranks.  The library's calls are modelled by what they do to the *)
(* key/value pairs of all processes; a call in which the processes wait    *)
(* for each other (collate, gather, broadcast, the MPI_Allreduce at the    *)
(* end of map) is a step of all of them together.                          *)
(*                                                                         *)
(* Abstracted: the order in which pairs arrive, which decides the rounding *)
(* of sums only, is the order of the ranks that sent them.                 *)
(***************************************************************************)
EXTENDS WebGraph, SequencesExt

CONSTANTS
  Files,      \* input files: non-empty sequences of edges
  Size,       \* SIZE, the processes of MPI_COMM_WORLD
  Owner,      \* hashlittle(key) % nprocs
  MaxValues,  \* values of one key that fit in a page of a KeyMultiValue
  NaN,        \* the double 0.0/0
  Hole        \* a line of the output file that no one has written

Ranks == 0 .. Size - 1
Double == Value \cup {NaN}

ASSUME FilesAssumption == \A file \in Files : IsFile(file)
ASSUME SizeAssumption  == Size \in Nat \ {0} /\ MaxValues \in Nat \ {0}
ASSUME OwnerAssumption ==
  /\ \A key \in DOMAIN Owner : Owner[key] \in Ranks
  /\ \A file \in Files : Vertices(file) \subseteq DOMAIN Owner
ASSUME NaNAssumption   == NaN \notin Value /\ Hole \notin Double

VARIABLES
  graph, hyperlink,     \* the input, equal in all processes
  pc,                   \* next call of each process
  job,                  \* which of the two map-reduces the processes are in
  pageRanks, factor, norm,
  kv,                   \* mapreduce.kv: the process's pairs
  kmv,                  \* mapreduce.kmv: key |-> the values of its pairs
  line, output          \* the output file

input == <<graph, hyperlink>>
outFile == <<line, output>>
vars  == <<input, pc, job, pageRanks, factor, norm, kv, kmv, outFile>>

V == DOMAIN hyperlink
N == Cardinality(V)
COMMON == 0

Pair(key, value) == [key |-> key, value |-> value]
KeysIn(pairs)    == {pairs[i].key : i \in DOMAIN pairs}

(* double arithmetic with the one value that is no number *)
Add(x, y)      == IF NaN \in {x, y} THEN NaN ELSE plus(x, y)
Distance(x, y) == IF NaN \in {x, y} THEN NaN ELSE absDiff(x, y)
Scaled(a, x)   == IF x = NaN THEN NaN ELSE times(a, x)
Sum(values)    ==
  IF \E i \in DOMAIN values : values[i] = NaN THEN NaN ELSE Accumulate(values)

(* norm > Constant::TOL *)
Above(x) == x # NaN /\ ~AtMost(x, TOL)

(* the keys that map_tasks gives to process r (mapstyle 0) *)
Lo(r) == (r * N) \div Size
Chunk(r) == [i \in 1 .. Lo(r + 1) - Lo(r) |-> Lo(r) + i - 1]

(* MapFactor; MapPageRank: the factor, then a share for every edge *)
FactorPairs(r, key) ==
  LET rank == pageRanks[r][key]
  IN  <<Pair(COMMON, IF rank = NaN THEN NaN ELSE FactorValue(hyperlink[key], rank))>>
PageRankPairs(r, key) ==
  <<Pair(key, factor[r])>> \o
  FlattenSeq([i \in 1 .. N |->
    [copy \in 1 .. graph.toList[key][i - 1] |->
       Pair(i - 1, Scaled(hyperlink[key], pageRanks[r][key]))]])

(* the pairs of one process's callbacks *)
Mapped(r) ==
  FlattenSeq([i \in DOMAIN Chunk(r) |->
    IF job = "factor" THEN FactorPairs(r, Chunk(r)[i]) ELSE PageRankPairs(r, Chunk(r)[i])])

ReceivedOwn(r) == kv[r]      \* mutant of Received: convert without aggregate

(* the numbers in a set from the lowest on, the elements of a sequence at them *)
Ascending(S) ==
  [n \in 1 .. Cardinality(S) |-> CHOOSE x \in S : Cardinality({y \in S : y < x}) = n - 1]
At(seq, S) == LET place == Ascending(S) IN [n \in DOMAIN place |-> seq[place[n]]]

(* aggregate: the pairs that end on process r *)
Received(r) ==
  FlattenSeq([s \in 1 .. Size |->
    At(kv[s - 1], {i \in DOMAIN kv[s - 1] : Owner[kv[s - 1][i].key] = r})])

(* convert: the values of each key *)
Grouped(pairs) ==
  [key \in KeysIn(pairs) |->
     LET own == At(pairs, {i \in DOMAIN pairs : pairs[i].key = key})
     IN  [i \in DOMAIN own |-> own[i].value]]

(* What a reduce callback sees of a multivalue: its first nvalues values.  A  *)
(* multivalue that is larger than a page comes with nvalues = 0.              *)
Seen(values) == IF Len(values) > MaxValues THEN <<>> ELSE values

Average(values) ==
  IF values = <<>> THEN NaN ELSE Scaled(<<1, Len(values)>>, Sum(values))
ReducedFactor(values)   == Average(Seen(values))
ReducedPageRank(values) == Scaled(ALPHA, Sum(Seen(values)))

Keys(map) == Ascending(DOMAIN map)
Reduced(map) ==
  [i \in DOMAIN Keys(map) |->
     LET values == map[Keys(map)[i]]
     IN  Pair(Keys(map)[i],
              IF job = "factor" THEN ReducedFactor(values) ELSE ReducedPageRank(values))]

(* GatherPageRank, pair after pair: the column is changed in place and the    *)
(* norm added up                                                              *)
GatherPageRank(calc, pair) ==
  [norm      |-> Add(calc.norm, Distance(calc.pageRanks[pair.key], pair.value)),
   pageRanks |-> [calc.pageRanks EXCEPT ![pair.key] = pair.value]]
Gathered(calc, pairs) == FoldLeft(GatherPageRank, calc, pairs)

(* the pairs in the order of their keys *)
Before(pairs, j, i) ==
  pairs[j].key < pairs[i].key \/ (pairs[j].key = pairs[i].key /\ j < i)
Sorted(pairs) ==
  [n \in DOMAIN pairs |->
     pairs[CHOOSE i \in DOMAIN pairs : Cardinality({j \in DOMAIN pairs : Before(pairs, j, i)}) = n - 1]]

Goto(r, label) == pc' = [pc EXCEPT ![r] = label]

(* the processes return together from a call that ends with a collective *)
Together(from, to) ==
  /\ \A r \in Ranks : pc[r] = from
  /\ pc' = [r \in Ranks |-> to]

OutFile == INSTANCE PageRankFile

--------------------------------------------------------------------------------
(* Mutants of the actions below *)

BroadcastNothing ==          \* only process 0 has the pairs
  /\ Together("broadcast", "take")
  /\ UNCHANGED <<input, job, pageRanks, factor, norm, kv, kmv, outFile>>

TestWithoutRefresh(r) ==     \* the norms of all iterations are added up
  /\ pc[r] = "test"
  /\ Goto(r, IF Above(norm[r]) THEN "barrier" ELSE "open")
  /\ UNCHANGED <<input, job, pageRanks, factor, norm, kv, kmv, outFile>>

CloseFileUnflushed(r) ==     \* the last line stays in the buffer
  /\ pc[r] = "print" /\ Goto(r, "done")
  /\ OutFile!Printed(r, [v \in V \ {N - 1} |-> pageRanks[r][v]])
  /\ UNCHANGED <<input, job, pageRanks, factor, norm, kv, kmv, outFile>>

--------------------------------------------------------------------------------
(* Every process has read the same file, and refresh has set norm to 0. *)
Init ==
  /\ \E file \in Files : graph = Graph(file)
  /\ hyperlink = calculateHyperLinkColumn(graph.toList)
  /\ pc = [r \in Ranks |-> "barrier"] /\ job = "factor"
  /\ pageRanks = [r \in Ranks |-> getInitPageRank(N)]
  /\ factor = [r \in Ranks |-> Zero]      \* not initialized, and not read before Take
  /\ norm = [r \in Ranks |-> Zero]
  /\ kv = [r \in Ranks |-> <<>>] /\ kmv = [r \in Ranks |-> <<>>]
  /\ line = [r \in Ranks |-> 0] /\ output = OutFile!EmptyFile(V)

(* MPI_Barrier in calculateFactor *)
Barrier ==
  /\ Together("barrier", "map")
  /\ job' = "factor"
  /\ UNCHANGED <<input, pageRanks, factor, norm, kv, kmv, outFile>>

(* map(N, MapFactor) and map(N, MapPageRank): the callbacks of one process *)
Map(r) ==
  /\ pc[r] = "map" /\ Goto(r, "collate")
  /\ kv' = [kv EXCEPT ![r] = Mapped(r)]
  /\ UNCHANGED <<input, job, pageRanks, factor, norm, kmv, outFile>>

(* collate: aggregate and convert *)
Collate ==
  /\ Together("collate", "reduce")
  /\ kmv' = [r \in Ranks |-> Grouped(Received(r))]
  /\ kv' = [r \in Ranks |-> <<>>]
  /\ UNCHANGED <<input, job, pageRanks, factor, norm, outFile>>

(* reduce: the callbacks of one process *)
Reduce(r) ==
  /\ pc[r] = "reduce" /\ Goto(r, "gather")
  /\ kv' = [kv EXCEPT ![r] = Reduced(kmv[r])]
  /\ kmv' = [kmv EXCEPT ![r] = <<>>]
  /\ UNCHANGED <<input, job, pageRanks, factor, norm, outFile>>

(* gather(HOME): process 0 collects all pairs *)
Gather ==
  /\ Together("gather", IF job = "page" THEN "sort" ELSE "broadcast")
  /\ kv' = [r \in Ranks |-> IF r = 0 THEN FlattenSeq([s \in 1 .. Size |-> kv[s - 1]]) ELSE <<>>]
  /\ UNCHANGED <<input, job, pageRanks, factor, norm, kmv, outFile>>

(* sort_keys(INT_SORT): every process sorts what it has *)
SortKeys(r) ==
  /\ pc[r] = "sort" /\ Goto(r, "broadcast")
  /\ kv' = [kv EXCEPT ![r] = Sorted(@)]
  /\ UNCHANGED <<input, job, pageRanks, factor, norm, kmv, outFile>>

(* broadcast(ROOT) *)
Broadcast ==
  /\ Together("broadcast", "take")
  /\ kv' = [r \in Ranks |-> kv[0]]
  /\ UNCHANGED <<input, job, pageRanks, factor, norm, kmv, outFile>>

(* map(&mapreduce, GatherFactor): the last pair's value stays *)
TakeFactor(r) ==
  /\ pc[r] = "take" /\ job = "factor" /\ Goto(r, "taken")
  /\ factor' = [factor EXCEPT ![r] = IF kv[r] = <<>> THEN @ ELSE Last(kv[r]).value]
  /\ kv' = [kv EXCEPT ![r] = <<>>]
  /\ UNCHANGED <<input, job, pageRanks, norm, kmv, outFile>>

(* map(&mapreduce, GatherPageRank) *)
TakePageRanks(r) ==
  /\ pc[r] = "take" /\ job = "page" /\ Goto(r, "taken")
  /\ LET calc == Gathered([norm |-> norm[r], pageRanks |-> pageRanks[r]], kv[r])
     IN  /\ norm' = [norm EXCEPT ![r] = calc.norm]
         /\ pageRanks' = [pageRanks EXCEPT ![r] = calc.pageRanks]
  /\ kv' = [kv EXCEPT ![r] = <<>>]
  /\ UNCHANGED <<input, job, factor, kmv, outFile>>

(* the MPI_Allreduce at the end of map(&mapreduce, ...) *)
EndTake ==
  /\ Together("taken", IF job = "factor" THEN "map" ELSE "test")
  /\ job' = "page"
  /\ UNCHANGED <<input, pageRanks, factor, norm, kv, kmv, outFile>>

(* while (norm > TOL), each process with its own norm; refresh *)
Test(r) ==
  /\ pc[r] = "test"
  /\ \/ /\ Above(norm[r]) /\ Goto(r, "barrier")
        /\ norm' = [norm EXCEPT ![r] = Zero]
     \/ /\ ~Above(norm[r]) /\ Goto(r, "open")
        /\ UNCHANGED norm
  /\ UNCHANGED <<input, job, pageRanks, factor, kv, kmv, outFile>>

(* printPageRank *)
OpenFile(r) ==
  /\ pc[r] = "open" /\ Goto(r, "print")
  /\ OutFile!Open(V)
  /\ UNCHANGED <<input, job, pageRanks, factor, norm, kv, kmv>>

PrintLine(r) ==
  /\ pc[r] = "print"
  /\ OutFile!WriteLine(r, pageRanks[r])
  /\ UNCHANGED <<input, pc, job, pageRanks, factor, norm, kv, kmv>>

(* the file is closed, MPI_Finalize follows *)
CloseFile(r) ==
  /\ pc[r] = "print" /\ Goto(r, "done")
  /\ OutFile!Printed(r, pageRanks[r])
  /\ UNCHANGED <<input, job, pageRanks, factor, norm, kv, kmv, outFile>>

Local(r) ==
  \/ Map(r) \/ Reduce(r) \/ SortKeys(r) \/ TakeFactor(r) \/ TakePageRanks(r) \/ Test(r)
  \/ OpenFile(r) \/ PrintLine(r) \/ CloseFile(r)

Collective == Barrier \/ Collate \/ Gather \/ Broadcast \/ EndTake

Terminated == (\A r \in Ranks : pc[r] = "done") /\ UNCHANGED vars

Next == (\E r \in Ranks : Local(r)) \/ Collective \/ Terminated

Spec == Init /\ [][Next]_vars

(* no process is stopped for ever, and a collective that all have entered ends *)
FairSpec == Spec /\ WF_vars(Collective) /\ \A r \in Ranks : WF_vars(Local(r))

--------------------------------------------------------------------------------
Labels == {"barrier", "map", "collate", "reduce", "gather", "sort", "broadcast", "take",
           "taken", "test", "open", "print", "done"}

(* Types; every process keeps one rank per vertex. *)
TypeOK ==
  /\ pc \in [Ranks -> Labels] /\ job \in {"factor", "page"}
  /\ pageRanks \in [Ranks -> [V -> Double]]
  /\ factor \in [Ranks -> Double] /\ norm \in [Ranks -> Double]
  /\ kv \in [Ranks -> Seq([key : V, value : Double])]
  /\ DOMAIN kmv = Ranks /\ \A r \in Ranks :
       DOMAIN kmv[r] \subseteq V /\ \A key \in DOMAIN kmv[r] : kmv[r][key] \in Seq(Double)
  /\ line \in [Ranks -> 0 .. N]
  /\ output \in [V -> Double \cup {Hole}]

(* Each vertex is mapped by one process: the chunks of map_tasks leave none   *)
(* out and do not overlap, with more processes than vertices too.             *)
ChunksDivide ==
  \A v \in V : \E r \in Ranks :
    /\ v \in Lo(r) .. Lo(r + 1) - 1
    /\ \A s \in Ranks \ {r} : v \notin Lo(s) .. Lo(s + 1) - 1

(* Each vertex is reduced by one process: whatever the hash does, the pairs   *)
(* that all processes are about to take are the new ranks of all vertices,    *)
(* once each and in order.  A vertex reduced by two processes would be        *)
(* replaced by a part of its sum.                                             *)
EachVertexOnce ==
  \A r \in Ranks : pc[r] = "take" /\ job = "page" =>
    /\ Len(kv[r]) = N
    /\ \A v \in V : kv[r][v + 1].key = v

(* No process leaves the loop while another one goes on and waits for it in a *)
(* collective: each tests its own norm, and all norms are equal.              *)
Returned == {"open", "print", "done"}

LeaveTogether ==
  \A r, s \in Ranks : pc[r] \in Returned => pc[s] \in Returned \cup {"test"}

(* Every process runs the promised iteration, although it replaces the column *)
(* pair by pair and adds up the norm on the way.                              *)
Power(r) == INSTANCE PowerIteration WITH
  column <- pageRanks[r],
  ended  <- \/ pc[r] \in Returned
            \/ job = "page" /\ pc[r] \in {"taken", "test"} /\ ~Above(norm[r])

ImplementsPowerIteration ==
  /\ \A r \in Ranks : Power(r)!Init
  /\ [][\A r \in Ranks : [Power(r)!Iterate]_(Power(r)!vars)]_vars

(* When all have closed the file, it holds the ranks that every one of them   *)
(* computed: a process that truncates it late writes the same lines again.    *)
OutputIsPageRank ==
  (\A r \in Ranks : pc[r] = "done") => \A r \in Ranks : output = pageRanks[r]

(* doc/reduce.html of mrmpi: a multivalue that does not fit in a page comes   *)
(* with nvalues 0, and "your function must call two additional library        *)
(* functions in order to retrieve a block of values".  ReduceFactor relies on *)
(* nvalues alone, so the factor of a large graph would be lost.               *)
FactorIsNumber == \A r \in Ranks : factor[r] # NaN

--------------------------------------------------------------------------------
(* The inductive invariant behind LeaveTogether *)

(* Between two collectives all processes are in the same part of the program. *)
Stages == {{"test", "barrier"} \cup Returned, {"map", "collate"}, {"reduce", "gather"},
           {"sort", "broadcast"}, {"take", "taken"}}

LockStep == \E stage \in Stages : \A r \in Ranks : pc[r] \in stage

(* the column and the norm of a process, once it has taken the pairs it has *)
Result(r) ==
  LET now == [norm |-> norm[r], pageRanks |-> pageRanks[r]]
  IN  IF job = "page" /\ pc[r] = "take" THEN Gathered(now, kv[r]) ELSE now

SameColumn == \A r, s \in Ranks : Result(r).pageRanks = Result(s).pageRanks

(* Norms are equal except that a process on its way into the next iteration   *)
(* has reset its own; it was too large then.                                  *)
SameNorm ==
  /\ \A r, s \in Ranks : pc[r] # "barrier" /\ pc[s] # "barrier" => Result(r).norm = Result(s).norm
  /\ \A r \in Ranks : pc[r] = "barrier" => norm[r] = Zero
  /\ \A r \in Ranks : pc[r] \in Returned => ~Above(norm[r])
  /\ \A r, s \in Ranks : pc[r] = "barrier" /\ pc[s] \in Returned \cup {"test"} => Above(norm[s])

Shape ==
  /\ pc \in [Ranks -> Labels]
  /\ DOMAIN pageRanks = Ranks /\ DOMAIN norm = Ranks /\ DOMAIN kv = Ranks

AgreeInv == Shape /\ LockStep /\ SameColumn /\ SameNorm

(* The inductive invariant behind EachVertexOnce: the pairs that the processes *)
(* hold after each call of the second map-reduce                               *)
Own(r) == {v \in V : Owner[v] = r}

Distinct(pairs) == \A i, j \in DOMAIN pairs : pairs[i].key = pairs[j].key => i = j

InOrder(pairs) == Len(pairs) = N /\ \A v \in V : pairs[v + 1].key = v

OnceInv ==
  job = "page" => \A r \in Ranks :
    /\ pc[r] = "collate" => Lo(r) .. Lo(r + 1) - 1 \subseteq KeysIn(kv[r])
    /\ pc[r] = "reduce" => DOMAIN kmv[r] = Own(r)
    /\ pc[r] = "gather" => Distinct(kv[r]) /\ KeysIn(kv[r]) = Own(r)
    /\ pc[r] = "sort" /\ r = 0 => Distinct(kv[r]) /\ KeysIn(kv[r]) = V
    /\ pc[r] = "broadcast" /\ r = 0 => InOrder(kv[r])
    /\ pc[r] = "take" => InOrder(kv[r])

(* The inductive invariant behind OutputIsPageRank: what is in the file was    *)
(* written by a process that has not truncated it since.                       *)
Opened(r) == pc[r] \in {"print", "done"}

FileInv ==
  /\ \A r \in Ranks : ~Opened(r) => line[r] = 0
  /\ \A r \in Ranks : pc[r] = "done" => line[r] = N
  /\ (\E r \in Ranks : Opened(r)) =>
       \E r \in Ranks : Opened(r) /\ \A v \in V : v < line[r] => output[v] = pageRanks[r][v]
================================================================================
