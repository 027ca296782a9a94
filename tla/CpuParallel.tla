------------------------------ MODULE CpuParallel ------------------------------
(***************************************************************************)
(* One run of mapreduce::job under schedule_policy::cpu_parallel with the  *)
(* in_memory intermediate store (src/C++/include/detail).  num_cpus_       *)
(* threads claim map keys under the mutex m1, run the map task on a store  *)
(* of their own and merge it into the job's store under m2; after a join   *)
(* the partitions are shuffled and then reduced, one partition at a time   *)
(* per thread, and the counters of all threads are collated.               *)
(*                                                                         *)
(* Abstracted: a value is the map key that emitted it, so a                *)
(* std::list<value_type> is a bag of map keys (its order only decides the  *)
(* rounding of a floating-point sum), and a reduced value is the bag of    *)
(* the values it sums.                                                     *)
(***************************************************************************)
EXTENDS Integers, FiniteSetsExt

CONSTANTS
  N,          \* number of map keys: the datasource hands out 0 .. N-1
  C,          \* num_cpus_
  P,          \* specification.reduce_tasks: number of partitions
  RKeys,      \* reduce keys that may be emitted
  Part,       \* [RKeys -> 0..P-1], the hash partitioner
  Emit,       \* Emit[k][r]: how many values the map task of key k emits for r
  Faults,     \* the places where std::bad_alloc may be thrown
  NoThread,   \* a free mutex
  Absent      \* no node for a key in a std::map

Keys       == 0 .. N-1
Partitions == 0 .. P-1
Workers    == 1 .. C
Reducers   == 1 .. (IF C < P THEN C ELSE P)
Bags       == [Keys -> Nat]
MaybeBag   == Bags \cup {Absent}

ASSUME SizesAssumption  == N \in Nat /\ C \in Nat \ {0} /\ P \in Nat \ {0}
ASSUME RKeysAssumption  == RKeys \subseteq Nat /\ IsFiniteSet(RKeys)
ASSUME PartAssumption   == Part \in [RKeys -> Partitions]
ASSUME EmitAssumption   == Emit \in [Keys -> [RKeys -> Nat]]
ASSUME FaultsAssumption ==
  Faults \subseteq {"new_key", "map", "merge", "map_times", "reduce", "reduce_times"}
ASSUME AbsentAssumption == Absent \notin Bags
ASSUME NoThreadAssumption == NoThread \notin Workers

Counter == {"map_keys_executed", "map_key_errors", "map_keys_completed",
            "reduce_keys_executed", "reduce_key_errors", "reduce_keys_completed"}

VARIABLES
  phase,      \* where cpu_parallel::operator() is
  pc,         \* where each thread is
  m1, m2, mr, \* holders of the key mutex, the merge mutex, the reduce mutex
  sequence,   \* the datasource's next key
  key,        \* the key a map thread has read
  part,       \* partition a thread merges (map) or reduces (reduce)
  partition,  \* the loop variable of intermediate(), then the counter of reduce()
  loop,       \* inner loop variable of intermediate(), then of collate_results()
  shuffled,   \* partitions a shuffle thread was started for
  store,      \* intermediates_: reduce key |-> Absent or its list of values
  rows,       \* reduce key |-> result values reduce emitted into its list
  taken,      \* the std::map a reducer swapped out of the store
  counters,   \* each thread's results::counters
  total,      \* the counters of the results object the caller passed
  stderr,     \* an "Error: ..." line was written to std::cerr
  merged      \* history: map keys whose merge_from ran to its end

keyVars    == <<m1, sequence, key>>
mergeVars  == <<m2, merged>>
reduceVars == <<mr, rows, taken>>
mainVars   == <<phase, loop, shuffled, total>>
vars == <<phase, pc, m1, m2, mr, sequence, key, part, partition, loop, shuffled,
          store, rows, taken, counters, total, stderr, merged>>

EmptyMap  == [r \in RKeys |-> Absent]
EmptyList == [k \in Keys |-> 0]
Zeroes    == [c \in Counter |-> 0]

(* n copies of the value that map key k emits *)
Copies(k, n) == [j \in Keys |-> IF j = k THEN n ELSE 0]

(* std::copy(list, back_inserter) into the node of a key, made when absent *)
Append(node, list) ==
  IF node = Absent THEN list ELSE [k \in Keys |-> node[k] + list[k]]

(* the intermediate store of the map task of key k *)
Emitted(k) ==
  [r \in RKeys |-> IF Emit[k][r] = 0 THEN Absent ELSE Copies(k, Emit[k][r])]

(* the std::map of partition p of a store, with Absent outside p *)
MapOf(s, p) == [r \in RKeys |-> IF Part[r] = p THEN s[r] ELSE Absent]

(* thread w increments the counters in S of its results object *)
Count(w, S) ==
  [counters EXCEPT ![w] = [c \in Counter |-> IF c \in S THEN @[c] + 1 ELSE @[c]]]

Goto(w, label) == pc' = [pc EXCEPT ![w] = label]

(* the reduce keys in the reducer's map that it has not called back for *)
Todo(w) == {r \in RKeys : taken[w][r] # Absent}

Ended(w) == pc[w] \in {"exited", "crashed"}

--------------------------------------------------------------------------------
(* Mutants: each is an action below with one plausible bug.  No action uses   *)
(* them; a property is re-checked with one in the place of its original.      *)

LockKeysNoWait(w) ==      \* m1 is not waited for
  /\ pc[w] = "lock_m1"
  /\ m1' = w
  /\ Goto(w, "get_key")
  /\ UNCHANGED <<sequence, key, part, partition, store, counters, stderr,
                 mergeVars, reduceVars, mainVars>>

LockStoreNoWait(w) ==     \* m2 is not waited for
  /\ pc[w] = "lock_m2"
  /\ m2' = w
  /\ part' = [part EXCEPT ![w] = 0]
  /\ Goto(w, "merge")
  /\ UNCHANGED <<partition, store, counters, stderr, merged,
                 keyVars, reduceVars, mainVars>>

JoinSomeMapThread ==      \* one thread is joined instead of all
  /\ phase = "map" /\ \E w \in Workers : Ended(w)
  /\ phase' = "intermediate"
  /\ UNCHANGED <<pc, part, partition, loop, shuffled, store, counters, total, stderr,
                 keyVars, mergeVars, reduceVars>>

LockPartitionNoWait(w) == \* the reduce mutex is not waited for
  /\ pc[w] = "lock_mr"
  /\ mr' = w
  /\ Goto(w, "get_partition")
  /\ UNCHANGED <<part, partition, store, rows, taken, counters, stderr,
                 keyVars, mergeVars, mainVars>>

IncrPartitionKeepsLock(w) == \* the reduce mutex stays locked at the break
  /\ pc[w] = "incr_partition"
  /\ partition' = part[w] + 1
  /\ mr' = IF part[w] < P THEN NoThread ELSE mr
  /\ Goto(w, IF part[w] < P THEN "swap_out" ELSE "exited")
  /\ UNCHANGED <<part, store, rows, taken, counters, stderr,
                 keyVars, mergeVars, mainVars>>

ReduceThrowsMiscounted(w) == \* a key is completed before its callback runs
  /\ "reduce" \in Faults /\ pc[w] = "reduce" /\ Todo(w) # {}
  /\ taken' = [taken EXCEPT ![w] = EmptyMap]
  /\ counters' = Count(w, {"reduce_keys_executed", "reduce_keys_completed",
                           "reduce_key_errors"})
  /\ stderr' = TRUE
  /\ Goto(w, "reduce_times")
  /\ UNCHANGED <<part, partition, store, mr, rows, keyVars, mergeVars, mainVars>>

ReduceThrowsSilently(w) ==   \* the handler does not announce the error
  /\ "reduce" \in Faults /\ pc[w] = "reduce" /\ Todo(w) # {}
  /\ taken' = [taken EXCEPT ![w] = EmptyMap]
  /\ counters' = Count(w, {"reduce_key_errors"})
  /\ Goto(w, "reduce_times")
  /\ UNCHANGED <<part, partition, store, mr, rows, stderr, keyVars, mergeVars, mainVars>>

--------------------------------------------------------------------------------
(* The datasource is refreshed before the job is constructed and run. *)
Init ==
  /\ phase = "map"
  /\ pc = [w \in Workers |-> "lock_m1"]
  /\ m1 = NoThread /\ m2 = NoThread /\ mr = NoThread
  /\ sequence = 0
  /\ key = [w \in Workers |-> 0]
  /\ part = [w \in Workers |-> 0]
  /\ partition = 0 /\ loop = 0 /\ shuffled = {}
  /\ store = EmptyMap
  /\ rows = [r \in RKeys |-> 0]
  /\ taken = [w \in Workers |-> EmptyMap]
  /\ counters = [w \in Workers |-> Zeroes]
  /\ total = Zeroes
  /\ stderr = FALSE
  /\ merged = {}

--------------------------------------------------------------------------------
(* Map threads: run_next_map_task and run_map_task *)

LockKeys(w) ==
  /\ pc[w] = "lock_m1" /\ m1 = NoThread
  /\ m1' = w
  /\ Goto(w, "get_key")
  /\ UNCHANGED <<sequence, key, part, partition, store, counters, stderr,
                 mergeVars, reduceVars, mainVars>>

(* new key_type throws: the handler ends the thread, nothing unlocks m1 *)
NewKeyThrows(w) ==
  /\ "new_key" \in Faults /\ pc[w] = "get_key"
  /\ Goto(w, "crashed")
  /\ stderr' = TRUE
  /\ UNCHANGED <<keyVars, part, partition, store, counters,
                 mergeVars, reduceVars, mainVars>>

(* setup_key: key = sequence++ ... *)
ReadSequence(w) ==
  /\ pc[w] = "get_key"
  /\ key' = [key EXCEPT ![w] = sequence]
  /\ Goto(w, "setup_key")
  /\ UNCHANGED <<m1, sequence, part, partition, store, counters, stderr,
                 mergeVars, reduceVars, mainVars>>

(* ... return key < N, then m1.unlock() *)
SetupKey(w) ==
  /\ pc[w] = "setup_key"
  /\ sequence' = key[w] + 1
  /\ m1' = NoThread
  /\ Goto(w, IF key[w] < N THEN "run_map" ELSE "exited")
  /\ UNCHANGED <<key, part, partition, store, counters, stderr,
                 mergeVars, reduceVars, mainVars>>

RunMapTask(w) ==
  /\ pc[w] = "run_map"
  /\ counters' = Count(w, {"map_keys_executed"})
  /\ Goto(w, "lock_m2")
  /\ UNCHANGED <<part, partition, store, stderr,
                 keyVars, mergeVars, reduceVars, mainVars>>

(* the map task throws: the key is counted as an error and given up *)
MapTaskThrows(w) ==
  /\ "map" \in Faults /\ pc[w] = "run_map"
  /\ counters' = Count(w, {"map_keys_executed", "map_key_errors"})
  /\ stderr' = TRUE
  /\ Goto(w, "lock_m1")
  /\ UNCHANGED <<part, partition, store, keyVars, mergeVars, reduceVars, mainVars>>

LockStore(w) ==
  /\ pc[w] = "lock_m2" /\ m2 = NoThread
  /\ m2' = w
  /\ part' = [part EXCEPT ![w] = 0]
  /\ Goto(w, "merge")
  /\ UNCHANGED <<partition, store, counters, stderr, merged,
                 keyVars, reduceVars, mainVars>>

(* merge_from(partition, other): map.size() == 0 is tested ... *)
TestEmpty(w) ==
  /\ pc[w] = "merge" /\ part[w] < P
  /\ Goto(w, IF MapOf(store, part[w]) = EmptyMap THEN "swap" ELSE "insert")
  /\ UNCHANGED <<part, partition, store, counters, stderr,
                 keyVars, mergeVars, reduceVars, mainVars>>

(* ... and an empty map is swapped with the task's *)
SwapIn(w) ==
  /\ pc[w] = "swap"
  /\ store' = [r \in RKeys |-> IF Part[r] = part[w] THEN Emitted(key[w])[r] ELSE store[r]]
  /\ part' = [part EXCEPT ![w] = @ + 1]
  /\ Goto(w, "merge")
  /\ UNCHANGED <<partition, counters, stderr, keyVars, mergeVars, reduceVars, mainVars>>

(* ... any other is extended, key by key *)
InsertInto(w) ==
  /\ pc[w] = "insert"
  /\ store' = [r \in RKeys |->
                 IF Part[r] = part[w] /\ Emit[key[w]][r] > 0
                 THEN Append(store[r], Emitted(key[w])[r]) ELSE store[r]]
  /\ part' = [part EXCEPT ![w] = @ + 1]
  /\ Goto(w, "merge")
  /\ UNCHANGED <<partition, counters, stderr, keyVars, mergeVars, reduceVars, mainVars>>

(* an allocation in it throws: the keys below r are copied, r in part or not   *)
(* at all; earlier partitions stay merged                                      *)
InsertThrows(w) ==
  /\ "merge" \in Faults /\ pc[w] = "insert"
  /\ \E r \in RKeys :
       /\ Part[r] = part[w] /\ Emit[key[w]][r] > 0
       /\ \E node \in {store[r]} \cup
            {Append(store[r], Copies(key[w], n)) : n \in 0 .. Emit[key[w]][r] - 1} :
            store' = [q \in RKeys |->
                        CASE q = r -> node
                          [] q < r /\ Part[q] = part[w] /\ Emit[key[w]][q] > 0 ->
                               Append(store[q], Emitted(key[w])[q])
                          [] OTHER -> store[q]]
  /\ counters' = Count(w, {"map_key_errors"})
  /\ stderr' = TRUE
  /\ m2' = NoThread
  /\ Goto(w, "lock_m1")
  /\ UNCHANGED <<part, partition, merged, keyVars, reduceVars, mainVars>>

FinishMerge(w) ==
  /\ pc[w] = "merge" /\ part[w] = P
  /\ counters' = Count(w, {"map_keys_completed"})
  /\ merged' = merged \cup {key[w]}
  /\ m2' = NoThread
  /\ Goto(w, "map_times")
  /\ UNCHANGED <<part, partition, store, stderr, keyVars, reduceVars, mainVars>>

(* map_times.push_back, outside the try block of run_map_task *)
RecordMapTime(w) ==
  /\ pc[w] = "map_times"
  /\ Goto(w, "lock_m1")
  /\ UNCHANGED <<part, partition, store, counters, stderr,
                 keyVars, mergeVars, reduceVars, mainVars>>

(* when it throws, the handler of run_next_map_task ends the thread *)
MapTimesThrows(w) ==
  /\ "map_times" \in Faults /\ pc[w] = "map_times"
  /\ Goto(w, "crashed")
  /\ stderr' = TRUE
  /\ UNCHANGED <<part, partition, store, counters,
                 keyVars, mergeVars, reduceVars, mainVars>>

MapStep(w) ==
  \/ LockKeys(w) \/ NewKeyThrows(w) \/ ReadSequence(w) \/ SetupKey(w)
  \/ RunMapTask(w) \/ MapTaskThrows(w)
  \/ LockStore(w) \/ TestEmpty(w) \/ SwapIn(w) \/ InsertInto(w) \/ InsertThrows(w)
  \/ FinishMerge(w) \/ RecordMapTime(w) \/ MapTimesThrows(w)

--------------------------------------------------------------------------------
(* The main thread between the phases: cpu_parallel::operator() *)

JoinMapThreads ==
  /\ phase = "map" /\ \A w \in Workers : Ended(w)
  /\ phase' = "intermediate"
  /\ UNCHANGED <<pc, part, partition, loop, shuffled, store, counters, total, stderr,
                 keyVars, mergeVars, reduceVars>>

(* the inner loop of intermediate(): one shuffle thread per partition, which  *)
(* has nothing to do for the in_memory store                                  *)
StartShuffle ==
  /\ phase = "intermediate" /\ loop < C /\ partition < P
  /\ shuffled' = shuffled \cup {partition}
  /\ loop' = loop + 1
  /\ partition' = partition + 1
  /\ UNCHANGED <<phase, pc, part, store, counters, total, stderr,
                 keyVars, mergeVars, reduceVars>>

InnerLoopEnded == phase = "intermediate" /\ ~(loop < C /\ partition < P)

(* the outer loop increments partition once more before its next round *)
NextRound ==
  /\ InnerLoopEnded /\ partition + 1 < P
  /\ partition' = partition + 1
  /\ loop' = 0
  /\ UNCHANGED <<phase, pc, part, shuffled, store, counters, total, stderr,
                 keyVars, mergeVars, reduceVars>>

JoinShuffleThreads ==
  /\ InnerLoopEnded /\ partition + 1 >= P
  /\ phase' = "reduce"
  /\ partition' = 0
  /\ pc' = [w \in Workers |-> IF w \in Reducers THEN "lock_mr" ELSE "exited"]
  /\ UNCHANGED <<part, loop, shuffled, store, counters, total, stderr,
                 keyVars, mergeVars, reduceVars>>

JoinReduceThreads ==
  /\ phase = "reduce" /\ \A w \in Workers : Ended(w)
  /\ phase' = "collate"
  /\ loop' = 0
  /\ UNCHANGED <<pc, part, partition, shuffled, store, counters, total, stderr,
                 keyVars, mergeVars, reduceVars>>

(* collate_results: the results objects of all_results_, one after the other  *)
Collate ==
  /\ phase = "collate" /\ loop < C
  /\ total' = [c \in Counter |-> total[c] + counters[loop + 1][c]]
  /\ loop' = loop + 1
  /\ UNCHANGED <<phase, pc, part, partition, shuffled, store, counters, stderr,
                 keyVars, mergeVars, reduceVars>>

Return ==
  /\ phase = "collate" /\ loop = C
  /\ phase' = "done"
  /\ UNCHANGED <<pc, part, partition, loop, shuffled, store, counters, total, stderr,
                 keyVars, mergeVars, reduceVars>>

MainStep ==
  \/ JoinMapThreads \/ StartShuffle \/ NextRound \/ JoinShuffleThreads
  \/ JoinReduceThreads \/ Collate \/ Return

--------------------------------------------------------------------------------
(* Reduce threads: run_next_reduce_task and run_reduce_task *)

LockPartition(w) ==
  /\ pc[w] = "lock_mr" /\ mr = NoThread
  /\ mr' = w
  /\ Goto(w, "get_partition")
  /\ UNCHANGED <<part, partition, store, rows, taken, counters, stderr,
                 keyVars, mergeVars, mainVars>>

ReadPartition(w) ==
  /\ pc[w] = "get_partition"
  /\ part' = [part EXCEPT ![w] = partition]
  /\ Goto(w, "incr_partition")
  /\ UNCHANGED <<partition, store, counters, stderr,
                 keyVars, mergeVars, reduceVars, mainVars>>

IncrPartition(w) ==
  /\ pc[w] = "incr_partition"
  /\ partition' = part[w] + 1
  /\ mr' = NoThread
  /\ Goto(w, IF part[w] < P THEN "swap_out" ELSE "exited")
  /\ UNCHANGED <<part, store, rows, taken, counters, stderr,
                 keyVars, mergeVars, mainVars>>

SwapOut(w) ==
  /\ pc[w] = "swap_out"
  /\ taken' = [taken EXCEPT ![w] = MapOf(store, part[w])]
  /\ store' = [r \in RKeys |-> IF Part[r] = part[w] THEN Absent ELSE store[r]]
  /\ Goto(w, "reduce")
  /\ UNCHANGED <<part, partition, mr, rows, counters, stderr,
                 keyVars, mergeVars, mainVars>>

IsNext(w, r) == r \in Todo(w) /\ \A q \in Todo(w) : r <= q

(* the callback accumulates the values and emits one result for the key *)
ReduceKey(w) ==
  /\ pc[w] = "reduce"
  /\ \E r \in RKeys :
       /\ IsNext(w, r)
       /\ store' = [store EXCEPT ![r] = Append(@, taken[w][r])]
       /\ rows' = [rows EXCEPT ![r] = @ + 1]
       /\ taken' = [taken EXCEPT ![w][r] = Absent]
  /\ counters' = Count(w, {"reduce_keys_executed", "reduce_keys_completed"})
  /\ UNCHANGED <<pc, part, partition, mr, stderr, keyVars, mergeVars, mainVars>>

(* emit throws, before or after the node for the key is in the map: the rest   *)
(* of the partition is lost with the reducer's map                             *)
ReduceThrows(w) ==
  /\ "reduce" \in Faults /\ pc[w] = "reduce"
  /\ \E r \in RKeys :
       /\ IsNext(w, r)
       /\ store' \in {store, [store EXCEPT ![r] = Append(@, EmptyList)]}
  /\ taken' = [taken EXCEPT ![w] = EmptyMap]
  /\ counters' = Count(w, {"reduce_keys_executed", "reduce_key_errors"})
  /\ stderr' = TRUE
  /\ Goto(w, "reduce_times")
  /\ UNCHANGED <<part, partition, mr, rows, keyVars, mergeVars, mainVars>>

FinishPartition(w) ==
  /\ pc[w] = "reduce" /\ Todo(w) = {}
  /\ Goto(w, "reduce_times")
  /\ UNCHANGED <<part, partition, store, counters, stderr,
                 keyVars, mergeVars, reduceVars, mainVars>>

(* reduce_times.push_back, outside the try block of run_reduce_task *)
RecordReduceTime(w) ==
  /\ pc[w] = "reduce_times"
  /\ Goto(w, "lock_mr")
  /\ UNCHANGED <<part, partition, store, counters, stderr,
                 keyVars, mergeVars, reduceVars, mainVars>>

ReduceTimesThrows(w) ==
  /\ "reduce_times" \in Faults /\ pc[w] = "reduce_times"
  /\ Goto(w, "crashed")
  /\ stderr' = TRUE
  /\ UNCHANGED <<part, partition, store, counters,
                 keyVars, mergeVars, reduceVars, mainVars>>

ReduceStep(w) ==
  \/ LockPartition(w) \/ ReadPartition(w) \/ IncrPartition(w) \/ SwapOut(w)
  \/ ReduceKey(w) \/ ReduceThrows(w) \/ FinishPartition(w)
  \/ RecordReduceTime(w) \/ ReduceTimesThrows(w)

--------------------------------------------------------------------------------
Terminated == phase = "done" /\ UNCHANGED vars

Next ==
  \/ \E w \in Workers : MapStep(w) \/ ReduceStep(w)
  \/ MainStep
  \/ Terminated

(* The operating system runs every thread that can run. *)
Fairness ==
  /\ \A w \in Workers : WF_vars(MapStep(w) \/ ReduceStep(w))
  /\ WF_vars(MainStep)

Spec     == Init /\ [][Next]_vars
FairSpec == Spec /\ Fairness
--------------------------------------------------------------------------------
(* Properties *)

Threads == Workers \cup {NoThread}

MapLabels == {"lock_m1", "get_key", "setup_key", "run_map", "lock_m2", "merge",
              "swap", "insert", "map_times"}
ReduceLabels == {"lock_mr", "get_partition", "incr_partition", "swap_out", "reduce",
                 "reduce_times"}

(* Every variable holds a value of its C++ type: counters stay non-negative,  *)
(* a mutex is free or held by a thread, a std::map node is absent or a list.  *)
TypeOK ==
  /\ phase \in {"map", "intermediate", "reduce", "collate", "done"}
  /\ pc \in [Workers -> MapLabels \cup ReduceLabels \cup {"exited", "crashed"}]
  /\ m1 \in Threads /\ m2 \in Threads /\ mr \in Threads
  /\ sequence \in Nat
  /\ key \in [Workers -> Nat] /\ part \in [Workers -> Nat]
  /\ partition \in Nat /\ loop \in Nat
  /\ shuffled \subseteq Partitions
  /\ store \in [RKeys -> MaybeBag] /\ rows \in [RKeys -> Nat]
  /\ taken \in [Workers -> [RKeys -> MaybeBag]]
  /\ counters \in [Workers -> [Counter -> Nat]] /\ total \in [Counter -> Nat]
  /\ stderr \in BOOLEAN
  /\ merged \subseteq Keys

(* the thread has been given a map key and has not settled it *)
HoldsKey(w) == pc[w] \in {"run_map", "lock_m2", "merge", "swap", "insert"}

(* the thread is inside merge_from *)
Merging(w) == pc[w] \in {"merge", "swap", "insert"}

(* the thread has been given a partition and has not left its reduce task *)
HoldsPartition(w) == pc[w] \in {"swap_out", "reduce", "reduce_times"}

(* No map key is run twice: a key that a thread holds was handed out by the   *)
(* datasource, is held by no other thread and has not been merged before,     *)
(* although setup_key reads and increments the shared sequence.               *)
ClaimedOnce ==
  \A w \in Workers : HoldsKey(w) =>
    /\ key[w] < sequence /\ key[w] \notin merged
    /\ \A v \in Workers \ {w} : HoldsKey(v) => key[v] # key[w]

(* A completed merge is there in full when reduction starts: the swap that an *)
(* empty map is replaced by, and the merges of other threads, never drop or   *)
(* repeat a value of a key that map_keys_completed counts.                    *)
ExactlyOnce ==
  phase \in {"map", "intermediate"} =>
    \A k \in merged, r \in RKeys : Emit[k][r] > 0 =>
      store[r] # Absent /\ store[r][k] = Emit[k][r]

InList(node, k) == IF node = Absent THEN 0 ELSE node[k]

(* Each partition is reduced by one thread, and a key gets at most one        *)
(* result: a second reduce of a partition would sum results as if they were   *)
(* map values.                                                                *)
ReducedOnce ==
  /\ \A v, w \in Workers : v # w /\ HoldsPartition(v) /\ HoldsPartition(w) =>
       part[v] # part[w]
  /\ \A w \in Workers : HoldsPartition(w) => part[w] < partition
  /\ \A r \in RKeys : rows[r] <= 1

(* The joins separate the phases: once the map threads are joined no key is   *)
(* claimed or merged, and no result is emitted once the reducers are joined.  *)
NoLateStep ==
  [][ /\ phase # "map" => UNCHANGED <<sequence, merged>>
      /\ phase # "reduce" => UNCHANGED <<rows, taken>> ]_vars

(* the list that reduce should see for a key *)
FullList(r) ==
  IF \A k \in Keys : Emit[k][r] = 0 THEN Absent ELSE [k \in Keys |-> Emit[k][r]]

Complete ==
  \A r \in RKeys :
    store[r] = FullList(r) /\ rows[r] = IF FullList(r) = Absent THEN 0 ELSE 1

(* The collated counters account for every key: what was begun was either     *)
(* completed or failed, the completed map keys are the merged ones, and the   *)
(* completed reduce keys are the results.                                     *)
CountersAccount ==
  phase = "done" =>
    /\ total["map_keys_executed"] = total["map_keys_completed"] + total["map_key_errors"]
    /\ total["map_keys_completed"] = Cardinality(merged)
    /\ total["reduce_keys_executed"] =
         total["reduce_keys_completed"] + total["reduce_key_errors"]
    /\ total["reduce_keys_completed"] = Cardinality({r \in RKeys : rows[r] = 1})

(* the handler of run_next_map_task has ended the thread that holds m1 *)
MutexLeaked == m1 # NoThread /\ pc[m1] = "crashed"

(* The only way a run can fail to end is an exception thrown between m1.lock  *)
(* and m1.unlock: the other threads then wait for m1 for ever.                *)
EndsOrLeaks == <>(phase = "done" \/ MutexLeaked)

(* The run implements the contract its callers rely on. *)
Result(r) == [rows |-> rows[r], list |-> IF store[r] = Absent THEN EmptyList ELSE store[r]]
Owed(r) ==
  IF FullList(r) = Absent THEN [rows |-> 0, list |-> EmptyList]
  ELSE [rows |-> 1, list |-> FullList(r)]

NoResults == [r \in RKeys |-> [rows |-> 0, list |-> EmptyList]]

Contract == INSTANCE JobContract WITH
  ended    <- phase = "done",
  reported <- stderr,
  output   <- IF phase = "done" THEN [r \in RKeys |-> Result(r)] ELSE NoResults

(* Every behaviour of the threads is a run of JobContract: results short of   *)
(* the contract are announced before the run ends, duplicates never occur.    *)
ImplementsContract ==
  Contract!Init(NoResults) /\ [][Contract!Next([r \in RKeys |-> Owed(r)])]_(Contract!vars)

--------------------------------------------------------------------------------
(* The inductive invariants behind ClaimedOnce and ExactlyOnce *)

(* a thread is inside the region m1 protects *)
InKeyRegion(w) == pc[w] \in {"get_key", "setup_key"}

(* A map thread is one only before the join, a reducer only after it.         *)
PhaseInv ==
  \A w \in Workers :
    /\ pc[w] \in MapLabels => phase = "map"
    /\ pc[w] \in ReduceLabels => phase = "reduce"

(* The holder of m1 is alone between the read and the increment of sequence,  *)
(* so the keys below sequence have each been read once.                       *)
ClaimInv ==
  /\ \A w \in Workers :
       /\ InKeyRegion(w) => m1 = w
       /\ pc[w] = "setup_key" => key[w] = sequence
       /\ HoldsKey(w) => key[w] < N
  /\ \A k \in merged : k < sequence
  /\ ClaimedOnce

(* Only the holder of m2 is inside merge_from, at one of the partitions. *)
MergeRegion ==
  \A w \in Workers : Merging(w) =>
    /\ m2 = w
    /\ part[w] <= P
    /\ pc[w] # "merge" => part[w] < P

(* A map that is going to be swapped in is still found empty. *)
EmptyKnown ==
  \A w \in Workers : pc[w] = "swap" =>
    \A r \in RKeys : Part[r] = part[w] => store[r] = Absent

(* Nothing is stored of a key that was not handed out. *)
Unclaimed ==
  phase = "map" => \A r \in RKeys, k \in Keys : k >= sequence => InList(store[r], k) = 0

(* During a merge the store holds the task's values for the partitions merged *)
(* so far, before it none of them.                                            *)
InProgress ==
  phase = "map" => \A w \in Workers, r \in RKeys : HoldsKey(w) =>
    InList(store[r], key[w]) = IF Merging(w) /\ Part[r] < part[w] THEN Emit[key[w]][r] ELSE 0

(* The store holds all values of a merged key until reduction begins. *)
Settled ==
  phase \in {"map", "intermediate"} =>
    \A r \in RKeys, k \in merged : InList(store[r], k) = Emit[k][r]

MergeInv == MergeRegion /\ EmptyKnown /\ Unclaimed /\ InProgress /\ Settled

(* Between the read and the increment of partition its reader is alone, so    *)
(* every partition below it has been given to one reducer.                    *)
PartitionInv ==
  /\ \A w \in Workers :
       /\ pc[w] \in {"get_partition", "incr_partition"} => mr = w
       /\ pc[w] = "incr_partition" => part[w] = partition
       /\ HoldsPartition(w) => part[w] < partition
  /\ \A v, w \in Workers : v # w /\ HoldsPartition(v) /\ HoldsPartition(w) => part[v] # part[w]

(* A key has a result only when its partition was given out, and then neither *)
(* is in a reducer's map nor can be swapped into one.                         *)
RowsInv ==
  /\ \A w \in Workers, r \in RKeys :
       taken[w][r] # Absent => pc[w] = "reduce" /\ Part[r] = part[w]
  /\ \A r \in RKeys :
       \/ rows[r] = 0
       \/ /\ rows[r] = 1
          /\ phase \in {"reduce", "collate", "done"} /\ Part[r] < partition
          /\ \A w \in Workers :
               taken[w][r] = Absent /\ ~(pc[w] = "swap_out" /\ part[w] = Part[r])
================================================================================
