---------------------------- MODULE DistributedPairs ----------------------------
(***************************************************************************)
(* What the collective calls of the mrmpi library promise (its manual,     *)
(* doc/*.html): key/value pairs are spread over the processes, and a call  *)
(* on all processes moves or groups them in one step.  data[p] is what     *)
(* process p holds: its pairs when kind is "kv", the pairs <<key, values>> *)
(* of its key/multivalue store when kind is "kmv".                         *)
(***************************************************************************)
EXTENDS MpiProcs, FiniteSetsExt

CONSTANTS HashOf,       \* [keys -> hash]
          Task          \* [1..number of tasks -> the pairs a task emits]

VARIABLES data, kind

AllOf(held) == FlattenSeq([p \in 1..N |-> held[p - 1]])
BagOf(seq) == [x \in Range(seq) |-> Cardinality({i \in DOMAIN seq : seq[i] = x})]
ProcOf(key) == HashOf[key] % N
Home(held, p) == SelectSeq(AllOf(held), LAMBDA pair : ProcOf(pair[1]) = p)

PairsBegin == kind = "kv"

\* A map: the tasks' pairs are added, wherever the tasks ran.
MapPromise ==
  /\ kind' = "kv"
  /\ \E held \in {[p \in Ranks |-> <<>>]} \union (IF kind = "kv" THEN {data} ELSE {}) :
       /\ \A p \in Ranks : IsPrefix(held[p], data'[p])
       /\ BagOf(AllOf(data')) = BagOf(AllOf(held) \o FlattenSeq(Task))

\* aggregate: all duplicates of a key are on the key's process.
AggregatePromise ==
  /\ kind = "kv" /\ kind' = "kv"
  /\ \A p \in Ranks : BagOf(data'[p]) = BagOf(Home(data, p))

\* gather: the first n processes hold all pairs, the others none.
GatheredBy(p, n) == FlattenSeq([i \in 1..N |-> IF (i - 1) % n = p THEN data[i - 1] ELSE <<>>])
Gathered(n) == [p \in Ranks |-> IF p < n THEN GatheredBy(p, n) ELSE <<>>]
GatherPromise == kind = "kv" /\ kind' = "kv" /\ \E n \in 1..N : data' = Gathered(n)

BroadcastPromise == kind = "kv" /\ kind' = "kv" /\ \E root \in Ranks : data' = [p \in Ranks |-> data[root]]

\* collate: every key once, on its process, with all its values.
ValuesIn(key, pairs) == FlattenSeq([i \in DOMAIN pairs |-> IF pairs[i][1] = key THEN <<pairs[i][2]>> ELSE <<>>])
CollatePromise ==
  /\ kind = "kv" /\ kind' = "kmv"
  /\ \A p \in Ranks :
       /\ {data'[p][i][1] : i \in DOMAIN data'[p]} = {pair[1] : pair \in Range(Home(data, p))}
       /\ \A i, j \in DOMAIN data'[p] : data'[p][i][1] = data'[p][j][1] => i = j
       /\ \A i \in DOMAIN data'[p] :
            BagOf(data'[p][i][2]) = BagOf(ValuesIn(data'[p][i][1], AllOf(data)))

\* scrunch: one pair on each of the first n processes, with all keys and values; the others
\* have a pair without values.
ScrunchPromise ==
  /\ kind = "kv" /\ kind' = "kmv"
  /\ \E n \in 1..N, key \in DOMAIN HashOf :
       data' = [p \in Ranks |-> <<<<key, FlattenSeq(Gathered(n)[p])>>>>]

PairsNext == MapPromise \/ AggregatePromise \/ GatherPromise \/ BroadcastPromise \/ CollatePromise \/ ScrunchPromise
PairsSpec == PairsBegin /\ [][PairsNext]_<<data, kind>>
=================================================================================
