--------------------------- MODULE CpuParallel_proofs ---------------------------
(***************************************************************************)
(* Proofs about CpuParallel, for every number of map keys, threads and     *)
(* partitions, every set of reduce keys and every set of faults.           *)
(***************************************************************************)
EXTENDS JobResults, FiniteSetTheorems, TLAPS

\* Facts on numbers, which do not depend on the constants of WebGraph.
Numbers == INSTANCE WebGraph_proofs WITH A <- 1, B <- 2, T <- 1

LEMMA NumbersConstants == 1 \in Nat \ {0} /\ 2 \in Nat /\ 1 < 2
OBVIOUS

USE SizesAssumption, RKeysAssumption, PartAssumption, EmitAssumption

--------------------------------------------------------------------------------
(* The operators on lists and maps stay within their types. *)

LEMMA AppendType ==
  ASSUME NEW node \in MaybeBag, NEW list \in Bags
  PROVE  Append(node, list) \in Bags
BY DEF Append, MaybeBag, Bags

LEMMA CopiesType ==
  ASSUME NEW k, NEW n \in Nat
  PROVE  Copies(k, n) \in Bags
BY DEF Copies, Bags

LEMMA EmittedType ==
  ASSUME NEW k \in Keys
  PROVE  Emitted(k) \in [RKeys -> MaybeBag]
BY CopiesType DEF Emitted, MaybeBag

LEMMA EmittedList ==
  ASSUME NEW k \in Keys, NEW r \in RKeys, Emit[k][r] > 0
  PROVE  /\ Emitted(k)[r] \in Bags
         /\ \A j \in Keys : Emitted(k)[r][j] = IF j = k THEN Emit[k][r] ELSE 0
<1>1. Emitted(k)[r] = Copies(k, Emit[k][r])
  BY DEF Emitted
<1>2. \A j \in Keys : Copies(k, Emit[k][r])[j] = IF j = k THEN Emit[k][r] ELSE 0
  BY DEF Copies
<1>. QED
  BY <1>1, <1>2, CopiesType

LEMMA MapOfType ==
  ASSUME NEW s \in [RKeys -> MaybeBag], NEW p
  PROVE  MapOf(s, p) \in [RKeys -> MaybeBag]
BY DEF MapOf, MaybeBag

--------------------------------------------------------------------------------
(* Type correctness needs to know that the key a thread works on is a map key. *)
TypeInv == TypeOK /\ \A w \in Workers : HoldsKey(w) => key[w] < N

LEMMA CountType ==
  ASSUME TypeOK, NEW w \in Workers, NEW S
  PROVE  Count(w, S) \in [Workers -> [Counter -> Nat]]
BY DEF TypeOK, Count

LEMMA EmptyTypes ==
  /\ EmptyMap \in [RKeys -> MaybeBag]
  /\ Zeroes \in [Counter -> Nat]
  /\ EmptyList \in Bags
BY DEF EmptyMap, MaybeBag, Zeroes, EmptyList, Bags

LEMMA TypeInit == Init => TypeInv
<1>. SUFFICES ASSUME Init PROVE TypeInv
  OBVIOUS
<1>1. store \in [RKeys -> MaybeBag] /\ taken \in [Workers -> [RKeys -> MaybeBag]]
  BY EmptyTypes DEF Init
<1>2. counters \in [Workers -> [Counter -> Nat]] /\ total \in [Counter -> Nat]
  BY EmptyTypes DEF Init
<1>3. pc \in [Workers -> MapLabels \cup ReduceLabels \cup {"exited", "crashed"}]
  BY DEF Init, MapLabels
<1>. QED
  BY <1>1, <1>2, <1>3 DEF Init, TypeInv, TypeOK, Threads, HoldsKey

LEMMA TypeNext == TypeInv /\ [Next]_vars => TypeInv'
<1>. SUFFICES ASSUME TypeInv, [Next]_vars
              PROVE  TypeInv'
  OBVIOUS
<1>. USE DEF TypeInv, TypeOK, HoldsKey, Goto, Threads, MapLabels, ReduceLabels,
             keyVars, mergeVars, reduceVars, mainVars
<1>1. ASSUME NEW w \in Workers, LockKeys(w)
      PROVE  TypeInv'
  BY <1>1 DEF LockKeys
<1>2. ASSUME NEW w \in Workers, NewKeyThrows(w)
      PROVE  TypeInv'
  BY <1>2 DEF NewKeyThrows
<1>3. ASSUME NEW w \in Workers, ReadSequence(w)
      PROVE  TypeInv'
  BY <1>3 DEF ReadSequence
<1>4. ASSUME NEW w \in Workers, SetupKey(w)
      PROVE  TypeInv'
  BY <1>4 DEF SetupKey
<1>5. ASSUME NEW w \in Workers, RunMapTask(w)
      PROVE  TypeInv'
  <2>1. counters' \in [Workers -> [Counter -> Nat]]
    BY <1>5, CountType DEF RunMapTask
  <2>. QED
    BY <1>5, <2>1 DEF RunMapTask
<1>6. ASSUME NEW w \in Workers, MapTaskThrows(w)
      PROVE  TypeInv'
  <2>1. counters' \in [Workers -> [Counter -> Nat]]
    BY <1>6, CountType DEF MapTaskThrows
  <2>. QED
    BY <1>6, <2>1 DEF MapTaskThrows
<1>7. ASSUME NEW w \in Workers, LockStore(w)
      PROVE  TypeInv'
  BY <1>7 DEF LockStore
<1>8. ASSUME NEW w \in Workers, TestEmpty(w)
      PROVE  TypeInv'
  BY <1>8 DEF TestEmpty
<1>9. ASSUME NEW w \in Workers, SwapIn(w)
      PROVE  TypeInv'
  <2>1. key[w] \in Keys
    BY <1>9 DEF SwapIn, Keys
  <2>2. store' \in [RKeys -> MaybeBag]
    BY <1>9, <2>1, EmittedType DEF SwapIn
  <2>. QED
    BY <1>9, <2>2 DEF SwapIn
<1>10. ASSUME NEW w \in Workers, InsertInto(w)
      PROVE  TypeInv'
  <2>1. key[w] \in Keys
    BY <1>10 DEF InsertInto, Keys
  <2>2. ASSUME NEW r \in RKeys, Emit[key[w]][r] > 0
        PROVE  Append(store[r], Emitted(key[w])[r]) \in Bags
    BY <2>1, <2>2, EmittedList, AppendType
  <2>3. store' \in [RKeys -> MaybeBag]
    BY <1>10, <2>2 DEF InsertInto, MaybeBag
  <2>. QED
    BY <1>10, <2>3 DEF InsertInto
<1>11. ASSUME NEW w \in Workers, InsertThrows(w)
      PROVE  TypeInv'
  <2>1. key[w] \in Keys
    BY <1>11 DEF InsertThrows, Keys
  <2>2. ASSUME NEW r \in RKeys, Emit[key[w]][r] > 0
        PROVE  Append(store[r], Emitted(key[w])[r]) \in MaybeBag
    BY <2>1, <2>2, EmittedList, AppendType DEF MaybeBag
  <2>3. PICK r \in RKeys :
          /\ Part[r] = part[w] /\ Emit[key[w]][r] > 0
          /\ \E node \in {store[r]} \cup
               {Append(store[r], Copies(key[w], n)) : n \in 0 .. Emit[key[w]][r] - 1} :
               store' = [q \in RKeys |->
                           CASE q = r -> node
                             [] q < r /\ Part[q] = part[w] /\ Emit[key[w]][q] > 0 ->
                                  Append(store[q], Emitted(key[w])[q])
                             [] OTHER -> store[q]]
    BY <1>11 DEF InsertThrows
  <2>4. ASSUME NEW n \in 0 .. Emit[key[w]][r] - 1
        PROVE  Append(store[r], Copies(key[w], n)) \in MaybeBag
    <3>1. n \in Nat
      BY <2>1
    <3>. QED
      BY <3>1, CopiesType, AppendType DEF MaybeBag
  <2>5. store' \in [RKeys -> MaybeBag]
    BY <2>2, <2>3, <2>4
  <2>6. counters' \in [Workers -> [Counter -> Nat]]
    BY <1>11, CountType DEF InsertThrows
  <2>. QED
    BY <1>11, <2>5, <2>6 DEF InsertThrows
<1>12. ASSUME NEW w \in Workers, FinishMerge(w)
      PROVE  TypeInv'
  <2>1. counters' \in [Workers -> [Counter -> Nat]]
    BY <1>12, CountType DEF FinishMerge
  <2>2. key[w] \in Keys
    BY <1>12 DEF FinishMerge, Keys
  <2>. QED
    BY <1>12, <2>1, <2>2 DEF FinishMerge
<1>13. ASSUME NEW w \in Workers, RecordMapTime(w)
      PROVE  TypeInv'
  BY <1>13 DEF RecordMapTime
<1>14. ASSUME NEW w \in Workers, MapTimesThrows(w)
      PROVE  TypeInv'
  BY <1>14 DEF MapTimesThrows
<1>15. ASSUME NEW w \in Workers, LockPartition(w)
      PROVE  TypeInv'
  BY <1>15 DEF LockPartition
<1>16. ASSUME NEW w \in Workers, ReadPartition(w)
      PROVE  TypeInv'
  BY <1>16 DEF ReadPartition
<1>17. ASSUME NEW w \in Workers, IncrPartition(w)
      PROVE  TypeInv'
  BY <1>17 DEF IncrPartition
<1>18. ASSUME NEW w \in Workers, SwapOut(w)
      PROVE  TypeInv'
  <2>1. store' \in [RKeys -> MaybeBag]
    BY <1>18 DEF SwapOut, MaybeBag
  <2>2. taken' \in [Workers -> [RKeys -> MaybeBag]]
    BY <1>18, MapOfType DEF SwapOut
  <2>. QED
    BY <1>18, <2>1, <2>2 DEF SwapOut
<1>19. ASSUME NEW w \in Workers, ReduceKey(w)
      PROVE  TypeInv'
  <2>1. PICK r \in RKeys : IsNext(w, r)
                         /\ store' = [store EXCEPT ![r] = Append(@, taken[w][r])]
                         /\ rows' = [rows EXCEPT ![r] = @ + 1]
                         /\ taken' = [taken EXCEPT ![w][r] = Absent]
    BY <1>19 DEF ReduceKey
  <2>2. taken[w][r] \in Bags
    BY <2>1 DEF IsNext, Todo, MaybeBag
  <2>3. store' \in [RKeys -> MaybeBag]
    BY <2>1, <2>2, AppendType DEF MaybeBag
  <2>4. rows' \in [RKeys -> Nat] /\ taken' \in [Workers -> [RKeys -> MaybeBag]]
    BY <2>1 DEF MaybeBag
  <2>5. counters' \in [Workers -> [Counter -> Nat]]
    BY <1>19, CountType DEF ReduceKey
  <2>. QED
    BY <1>19, <2>3, <2>4, <2>5 DEF ReduceKey
<1>20. ASSUME NEW w \in Workers, ReduceThrows(w)
      PROVE  TypeInv'
  <2>1. PICK r \in RKeys :
          store' \in {store, [store EXCEPT ![r] = Append(@, EmptyList)]}
    BY <1>20 DEF ReduceThrows
  <2>2. store' \in [RKeys -> MaybeBag]
    <3>1. Append(store[r], EmptyList) \in Bags
      BY EmptyTypes, AppendType
    <3>. QED
      BY <2>1, <3>1 DEF MaybeBag
  <2>3. taken' \in [Workers -> [RKeys -> MaybeBag]]
    BY <1>20, EmptyTypes DEF ReduceThrows
  <2>4. counters' \in [Workers -> [Counter -> Nat]]
    BY <1>20, CountType DEF ReduceThrows
  <2>. QED
    BY <1>20, <2>2, <2>3, <2>4 DEF ReduceThrows
<1>21. ASSUME NEW w \in Workers, FinishPartition(w)
      PROVE  TypeInv'
  BY <1>21 DEF FinishPartition
<1>22. ASSUME NEW w \in Workers, RecordReduceTime(w)
      PROVE  TypeInv'
  BY <1>22 DEF RecordReduceTime
<1>23. ASSUME NEW w \in Workers, ReduceTimesThrows(w)
      PROVE  TypeInv'
  BY <1>23 DEF ReduceTimesThrows
<1>24. CASE JoinMapThreads
  BY <1>24 DEF JoinMapThreads
<1>25. CASE StartShuffle
  <2>1. partition \in Partitions
    BY <1>25 DEF StartShuffle, Partitions
  <2>. QED
    BY <1>25, <2>1 DEF StartShuffle
<1>26. CASE NextRound
  BY <1>26 DEF NextRound
<1>27. CASE JoinShuffleThreads
  BY <1>27 DEF JoinShuffleThreads
<1>28. CASE JoinReduceThreads
  BY <1>28 DEF JoinReduceThreads
<1>29. CASE Collate
  <2>1. loop + 1 \in Workers
    BY <1>29 DEF Collate, Workers
  <2>2. total' \in [Counter -> Nat]
    BY <1>29, <2>1 DEF Collate
  <2>. QED
    BY <1>29, <2>2 DEF Collate
<1>30. CASE Return
  BY <1>30 DEF Return
<1>31. CASE UNCHANGED vars
  BY <1>31 DEF vars
<1>. QED
  BY <1>1, <1>2, <1>3, <1>4, <1>5, <1>6, <1>7, <1>8, <1>9, <1>10, <1>11, <1>12, <1>13,
     <1>14, <1>15, <1>16, <1>17, <1>18, <1>19, <1>20, <1>21, <1>22, <1>23, <1>24, <1>25,
     <1>26, <1>27, <1>28, <1>29, <1>30, <1>31 DEF Next, MapStep, ReduceStep, MainStep,
     Terminated

(* Type correctness: every reachable state has the types of the C++ program. *)
THEOREM TypeCorrect == Spec => []TypeOK
<1>1. TypeInv => TypeOK
  BY DEF TypeInv
<1>. QED
  BY <1>1, TypeInit, TypeNext, PTL DEF Spec

--------------------------------------------------------------------------------
(* The labels of the threads belong to the phase the main thread is in. *)

LEMMA PhaseNext == TypeInv /\ PhaseInv /\ [Next]_vars => PhaseInv'
<1>. SUFFICES ASSUME TypeInv, PhaseInv, [Next]_vars
              PROVE  PhaseInv'
  OBVIOUS
<1>. USE DEF TypeInv, TypeOK, PhaseInv, Goto, MapLabels, ReduceLabels, Ended, InnerLoopEnded,
             keyVars, mergeVars, reduceVars, mainVars
<1>1. ASSUME NEW w \in Workers, LockKeys(w)
      PROVE  PhaseInv'
  BY <1>1 DEF LockKeys
<1>2. ASSUME NEW w \in Workers, NewKeyThrows(w)
      PROVE  PhaseInv'
  BY <1>2 DEF NewKeyThrows
<1>3. ASSUME NEW w \in Workers, ReadSequence(w)
      PROVE  PhaseInv'
  BY <1>3 DEF ReadSequence
<1>4. ASSUME NEW w \in Workers, SetupKey(w)
      PROVE  PhaseInv'
  BY <1>4 DEF SetupKey
<1>5. ASSUME NEW w \in Workers, RunMapTask(w)
      PROVE  PhaseInv'
  BY <1>5 DEF RunMapTask
<1>6. ASSUME NEW w \in Workers, MapTaskThrows(w)
      PROVE  PhaseInv'
  BY <1>6 DEF MapTaskThrows
<1>7. ASSUME NEW w \in Workers, LockStore(w)
      PROVE  PhaseInv'
  BY <1>7 DEF LockStore
<1>8. ASSUME NEW w \in Workers, TestEmpty(w)
      PROVE  PhaseInv'
  BY <1>8 DEF TestEmpty
<1>9. ASSUME NEW w \in Workers, SwapIn(w)
      PROVE  PhaseInv'
  BY <1>9 DEF SwapIn
<1>10. ASSUME NEW w \in Workers, InsertInto(w)
      PROVE  PhaseInv'
  BY <1>10 DEF InsertInto
<1>11. ASSUME NEW w \in Workers, InsertThrows(w)
      PROVE  PhaseInv'
  BY <1>11 DEF InsertThrows
<1>12. ASSUME NEW w \in Workers, FinishMerge(w)
      PROVE  PhaseInv'
  BY <1>12 DEF FinishMerge
<1>13. ASSUME NEW w \in Workers, RecordMapTime(w)
      PROVE  PhaseInv'
  BY <1>13 DEF RecordMapTime
<1>14. ASSUME NEW w \in Workers, MapTimesThrows(w)
      PROVE  PhaseInv'
  BY <1>14 DEF MapTimesThrows
<1>15. ASSUME NEW w \in Workers, LockPartition(w)
      PROVE  PhaseInv'
  BY <1>15 DEF LockPartition
<1>16. ASSUME NEW w \in Workers, ReadPartition(w)
      PROVE  PhaseInv'
  BY <1>16 DEF ReadPartition
<1>17. ASSUME NEW w \in Workers, IncrPartition(w)
      PROVE  PhaseInv'
  BY <1>17 DEF IncrPartition
<1>18. ASSUME NEW w \in Workers, SwapOut(w)
      PROVE  PhaseInv'
  BY <1>18 DEF SwapOut
<1>19. ASSUME NEW w \in Workers, ReduceKey(w)
      PROVE  PhaseInv'
  BY <1>19 DEF ReduceKey
<1>20. ASSUME NEW w \in Workers, ReduceThrows(w)
      PROVE  PhaseInv'
  BY <1>20 DEF ReduceThrows
<1>21. ASSUME NEW w \in Workers, FinishPartition(w)
      PROVE  PhaseInv'
  BY <1>21 DEF FinishPartition
<1>22. ASSUME NEW w \in Workers, RecordReduceTime(w)
      PROVE  PhaseInv'
  BY <1>22 DEF RecordReduceTime
<1>23. ASSUME NEW w \in Workers, ReduceTimesThrows(w)
      PROVE  PhaseInv'
  BY <1>23 DEF ReduceTimesThrows
<1>24. CASE JoinMapThreads
  BY <1>24 DEF JoinMapThreads
<1>25. CASE StartShuffle
  BY <1>25 DEF StartShuffle
<1>26. CASE NextRound
  BY <1>26 DEF NextRound
<1>27. CASE JoinShuffleThreads
  BY <1>27 DEF JoinShuffleThreads
<1>28. CASE JoinReduceThreads
  BY <1>28 DEF JoinReduceThreads
<1>29. CASE Collate
  BY <1>29 DEF Collate
<1>30. CASE Return
  BY <1>30 DEF Return
<1>31. CASE UNCHANGED vars
  BY <1>31 DEF vars
<1>. QED
  BY <1>1, <1>2, <1>3, <1>4, <1>5, <1>6, <1>7, <1>8, <1>9, <1>10, <1>11, <1>12,
     <1>13, <1>14, <1>15, <1>16, <1>17, <1>18, <1>19, <1>20, <1>21, <1>22, <1>23, <1>24,
     <1>25, <1>26, <1>27, <1>28, <1>29, <1>30, <1>31 DEF Next, MapStep, ReduceStep, MainStep, Terminated

--------------------------------------------------------------------------------
(* m1 keeps the read and the increment of sequence together. *)

LEMMA ClaimNext ==
  TypeInv /\ PhaseInv /\ ClaimInv /\ [Next]_vars => ClaimInv'
<1>. SUFFICES ASSUME TypeInv, PhaseInv, ClaimInv, [Next]_vars
              PROVE  ClaimInv'
  OBVIOUS
<1>. USE DEF TypeInv, TypeOK, ClaimInv, ClaimedOnce, HoldsKey, InKeyRegion, Goto, Threads,
             MapLabels, ReduceLabels, keyVars, mergeVars, reduceVars, mainVars
<1>1. ASSUME NEW w \in Workers, LockKeys(w)
      PROVE  ClaimInv'
  BY <1>1, NoThreadAssumption DEF LockKeys
<1>2. ASSUME NEW w \in Workers, NewKeyThrows(w)
      PROVE  ClaimInv'
  BY <1>2 DEF NewKeyThrows
<1>3. ASSUME NEW w \in Workers, ReadSequence(w)
      PROVE  ClaimInv'
  BY <1>3 DEF ReadSequence
<1>4. ASSUME NEW w \in Workers, SetupKey(w)
      PROVE  ClaimInv'
  <2>1. key[w] = sequence /\ sequence' = sequence + 1 /\ key' = key /\ merged' = merged
    BY <1>4 DEF SetupKey
  <2>2. ASSUME NEW v \in Workers, v # w
        PROVE  pc'[v] = pc[v] /\ ~InKeyRegion(v)
    BY <1>4, <2>2 DEF SetupKey
  <2>3. pc'[w] \in {"run_map", "exited"} /\ (pc'[w] = "run_map" => key[w] < N)
    BY <1>4 DEF SetupKey
  <2>4. ASSUME NEW v \in Workers
        PROVE  /\ InKeyRegion(v)' => m1' = v
               /\ pc'[v] = "setup_key" => key'[v] = sequence'
               /\ HoldsKey(v)' => key'[v] < N /\ key'[v] < sequence' /\ key'[v] \notin merged'
    BY <2>1, <2>2, <2>3
  <2>5. ASSUME NEW u \in Workers, NEW v \in Workers, u # v, HoldsKey(u)', HoldsKey(v)'
        PROVE  key'[u] # key'[v]
    <3>1. \A x \in Workers \ {w} : HoldsKey(x)' => HoldsKey(x) /\ key[x] < sequence
      BY <2>2
    <3>2. CASE u # w /\ v # w
      BY <2>1, <2>5, <3>1, <3>2
    <3>3. CASE u = w
      BY <2>1, <2>5, <3>1, <3>3
    <3>4. CASE v = w
      BY <2>1, <2>5, <3>1, <3>4
    <3>. QED
      BY <3>2, <3>3, <3>4
  <2>6. \A k \in merged' : k < sequence'
    BY <2>1 DEF Keys
  <2>. QED
    BY <2>4, <2>5, <2>6
<1>5. ASSUME NEW w \in Workers, RunMapTask(w)
      PROVE  ClaimInv'
  BY <1>5 DEF RunMapTask
<1>6. ASSUME NEW w \in Workers, MapTaskThrows(w)
      PROVE  ClaimInv'
  BY <1>6 DEF MapTaskThrows
<1>7. ASSUME NEW w \in Workers, LockStore(w)
      PROVE  ClaimInv'
  BY <1>7 DEF LockStore
<1>8. ASSUME NEW w \in Workers, TestEmpty(w)
      PROVE  ClaimInv'
  BY <1>8 DEF TestEmpty
<1>9. ASSUME NEW w \in Workers, SwapIn(w)
      PROVE  ClaimInv'
  BY <1>9 DEF SwapIn
<1>10. ASSUME NEW w \in Workers, InsertInto(w)
      PROVE  ClaimInv'
  BY <1>10 DEF InsertInto
<1>11. ASSUME NEW w \in Workers, InsertThrows(w)
      PROVE  ClaimInv'
  BY <1>11 DEF InsertThrows
<1>12. ASSUME NEW w \in Workers, FinishMerge(w)
      PROVE  ClaimInv'
  BY <1>12 DEF FinishMerge
<1>13. ASSUME NEW w \in Workers, RecordMapTime(w)
      PROVE  ClaimInv'
  BY <1>13 DEF RecordMapTime
<1>14. ASSUME NEW w \in Workers, MapTimesThrows(w)
      PROVE  ClaimInv'
  BY <1>14 DEF MapTimesThrows
<1>15. ASSUME NEW w \in Workers, LockPartition(w)
      PROVE  ClaimInv'
  BY <1>15 DEF LockPartition
<1>16. ASSUME NEW w \in Workers, ReadPartition(w)
      PROVE  ClaimInv'
  BY <1>16 DEF ReadPartition
<1>17. ASSUME NEW w \in Workers, IncrPartition(w)
      PROVE  ClaimInv'
  BY <1>17 DEF IncrPartition
<1>18. ASSUME NEW w \in Workers, SwapOut(w)
      PROVE  ClaimInv'
  BY <1>18 DEF SwapOut
<1>19. ASSUME NEW w \in Workers, ReduceKey(w)
      PROVE  ClaimInv'
  BY <1>19 DEF ReduceKey
<1>20. ASSUME NEW w \in Workers, ReduceThrows(w)
      PROVE  ClaimInv'
  BY <1>20 DEF ReduceThrows
<1>21. ASSUME NEW w \in Workers, FinishPartition(w)
      PROVE  ClaimInv'
  BY <1>21 DEF FinishPartition
<1>22. ASSUME NEW w \in Workers, RecordReduceTime(w)
      PROVE  ClaimInv'
  BY <1>22 DEF RecordReduceTime
<1>23. ASSUME NEW w \in Workers, ReduceTimesThrows(w)
      PROVE  ClaimInv'
  BY <1>23 DEF ReduceTimesThrows
<1>24. CASE JoinMapThreads
  BY <1>24 DEF JoinMapThreads
<1>25. CASE StartShuffle
  BY <1>25 DEF StartShuffle
<1>26. CASE NextRound
  BY <1>26 DEF NextRound
<1>27. CASE JoinShuffleThreads
  BY <1>27 DEF JoinShuffleThreads
<1>28. CASE JoinReduceThreads
  BY <1>28 DEF JoinReduceThreads
<1>29. CASE Collate
  BY <1>29 DEF Collate
<1>30. CASE Return
  BY <1>30 DEF Return
<1>31. CASE UNCHANGED vars
  BY <1>31 DEF vars
<1>. QED
  BY <1>1, <1>2, <1>3, <1>4, <1>5, <1>6, <1>7, <1>8, <1>9, <1>10, <1>11, <1>12,
     <1>13, <1>14, <1>15, <1>16, <1>17, <1>18, <1>19, <1>20, <1>21, <1>22, <1>23, <1>24,
     <1>25, <1>26, <1>27, <1>28, <1>29, <1>30, <1>31 DEF Next, MapStep, ReduceStep, MainStep, Terminated

LEMMA ClaimInit == Init => PhaseInv /\ ClaimInv
BY DEF Init, PhaseInv, ClaimInv, ClaimedOnce, HoldsKey, InKeyRegion, MapLabels, ReduceLabels

(* The phases do not overlap: a join leaves no thread behind that could still  *)
(* claim or merge a key, or reduce one, in a later phase.                      *)
THEOREM NoLateStepHolds == Spec => NoLateStep
<1>. DEFINE Late == /\ phase # "map" => UNCHANGED <<sequence, merged>>
                    /\ phase # "reduce" => UNCHANGED <<rows, taken>>
<1>1. ASSUME PhaseInv, NEW w \in Workers, MapStep(w)
      PROVE  Late
  <2>1. pc[w] \in MapLabels
    BY <1>1 DEF MapStep, MapLabels, LockKeys, NewKeyThrows, ReadSequence, SetupKey, RunMapTask,
           MapTaskThrows, LockStore, TestEmpty, SwapIn, InsertInto, InsertThrows, FinishMerge,
           RecordMapTime, MapTimesThrows
  <2>2. UNCHANGED reduceVars
    BY <1>1 DEF MapStep, LockKeys, NewKeyThrows, ReadSequence, SetupKey, RunMapTask,
           MapTaskThrows, LockStore, TestEmpty, SwapIn, InsertInto, InsertThrows, FinishMerge,
           RecordMapTime, MapTimesThrows
  <2>. QED
    BY <1>1, <2>1, <2>2 DEF PhaseInv, reduceVars
<1>2. ASSUME PhaseInv, NEW w \in Workers, ReduceStep(w)
      PROVE  Late
  <2>1. pc[w] \in ReduceLabels
    BY <1>2 DEF ReduceStep, ReduceLabels, LockPartition, ReadPartition, IncrPartition, SwapOut,
           ReduceKey, ReduceThrows, FinishPartition, RecordReduceTime, ReduceTimesThrows
  <2>2. UNCHANGED <<keyVars, mergeVars>>
    BY <1>2 DEF ReduceStep, LockPartition, ReadPartition, IncrPartition, SwapOut,
           ReduceKey, ReduceThrows, FinishPartition, RecordReduceTime, ReduceTimesThrows
  <2>. QED
    BY <1>2, <2>1, <2>2 DEF PhaseInv, keyVars, mergeVars
<1>3. ASSUME MainStep \/ Terminated \/ UNCHANGED vars
      PROVE  Late
  BY <1>3 DEF MainStep, JoinMapThreads, StartShuffle, NextRound, JoinShuffleThreads,
         JoinReduceThreads, Collate, Return, Terminated, vars, keyVars, mergeVars, reduceVars
<1>4. PhaseInv /\ [Next]_vars => [Late]_vars
  BY <1>1, <1>2, <1>3 DEF Next
<1>5. Init => TypeInv /\ PhaseInv
  BY TypeInit, ClaimInit
<1>. QED
  BY <1>4, <1>5, TypeNext, PhaseNext, PTL DEF Spec, NoLateStep

(* No map key is run twice, whichever threads race for the datasource.        *)
THEOREM ClaimedOnceHolds == Spec => []ClaimedOnce
<1>. DEFINE IInv == TypeInv /\ PhaseInv /\ ClaimInv
<1>1. Init => IInv
  BY TypeInit, ClaimInit
<1>2. IInv /\ [Next]_vars => IInv'
  BY TypeNext, PhaseNext, ClaimNext
<1>3. IInv => ClaimedOnce
  BY DEF ClaimInv
<1>. QED
  BY <1>1, <1>2, <1>3, PTL DEF Spec

--------------------------------------------------------------------------------
(* m2 keeps the test for an empty map and what follows from it together. *)

LEMMA MergeRegionNext ==
  TypeInv /\ PhaseInv /\ MergeRegion /\ [Next]_vars => MergeRegion'
<1>. SUFFICES ASSUME TypeInv, PhaseInv, MergeRegion, [Next]_vars
              PROVE  MergeRegion'
  OBVIOUS
<1>. USE NoThreadAssumption
     DEF TypeInv, TypeOK, PhaseInv, MergeRegion, Merging, Goto, MapLabels, ReduceLabels,
         keyVars, mergeVars, reduceVars, mainVars
<1>1. ASSUME NEW w \in Workers, LockKeys(w)
      PROVE  MergeRegion'
  BY <1>1 DEF LockKeys
<1>2. ASSUME NEW w \in Workers, NewKeyThrows(w)
      PROVE  MergeRegion'
  BY <1>2 DEF NewKeyThrows
<1>3. ASSUME NEW w \in Workers, ReadSequence(w)
      PROVE  MergeRegion'
  BY <1>3 DEF ReadSequence
<1>4. ASSUME NEW w \in Workers, SetupKey(w)
      PROVE  MergeRegion'
  BY <1>4 DEF SetupKey
<1>5. ASSUME NEW w \in Workers, RunMapTask(w)
      PROVE  MergeRegion'
  BY <1>5 DEF RunMapTask
<1>6. ASSUME NEW w \in Workers, MapTaskThrows(w)
      PROVE  MergeRegion'
  BY <1>6 DEF MapTaskThrows
<1>7. ASSUME NEW w \in Workers, LockStore(w)
      PROVE  MergeRegion'
  BY <1>7 DEF LockStore
<1>8. ASSUME NEW w \in Workers, TestEmpty(w)
      PROVE  MergeRegion'
  BY <1>8 DEF TestEmpty
<1>9. ASSUME NEW w \in Workers, SwapIn(w)
      PROVE  MergeRegion'
  BY <1>9 DEF SwapIn
<1>10. ASSUME NEW w \in Workers, InsertInto(w)
      PROVE  MergeRegion'
  BY <1>10 DEF InsertInto
<1>11. ASSUME NEW w \in Workers, InsertThrows(w)
      PROVE  MergeRegion'
  BY <1>11 DEF InsertThrows
<1>12. ASSUME NEW w \in Workers, FinishMerge(w)
      PROVE  MergeRegion'
  BY <1>12 DEF FinishMerge
<1>13. ASSUME NEW w \in Workers, RecordMapTime(w)
      PROVE  MergeRegion'
  BY <1>13 DEF RecordMapTime
<1>14. ASSUME NEW w \in Workers, MapTimesThrows(w)
      PROVE  MergeRegion'
  BY <1>14 DEF MapTimesThrows
<1>15. ASSUME NEW w \in Workers, LockPartition(w)
      PROVE  MergeRegion'
  BY <1>15 DEF LockPartition
<1>16. ASSUME NEW w \in Workers, ReadPartition(w)
      PROVE  MergeRegion'
  BY <1>16 DEF ReadPartition
<1>17. ASSUME NEW w \in Workers, IncrPartition(w)
      PROVE  MergeRegion'
  BY <1>17 DEF IncrPartition
<1>18. ASSUME NEW w \in Workers, SwapOut(w)
      PROVE  MergeRegion'
  BY <1>18 DEF SwapOut
<1>19. ASSUME NEW w \in Workers, ReduceKey(w)
      PROVE  MergeRegion'
  BY <1>19 DEF ReduceKey
<1>20. ASSUME NEW w \in Workers, ReduceThrows(w)
      PROVE  MergeRegion'
  BY <1>20 DEF ReduceThrows
<1>21. ASSUME NEW w \in Workers, FinishPartition(w)
      PROVE  MergeRegion'
  BY <1>21 DEF FinishPartition
<1>22. ASSUME NEW w \in Workers, RecordReduceTime(w)
      PROVE  MergeRegion'
  BY <1>22 DEF RecordReduceTime
<1>23. ASSUME NEW w \in Workers, ReduceTimesThrows(w)
      PROVE  MergeRegion'
  BY <1>23 DEF ReduceTimesThrows
<1>24. CASE JoinMapThreads
  BY <1>24 DEF JoinMapThreads
<1>25. CASE StartShuffle
  BY <1>25 DEF StartShuffle
<1>26. CASE NextRound
  BY <1>26 DEF NextRound
<1>27. CASE JoinShuffleThreads
  BY <1>27 DEF JoinShuffleThreads
<1>28. CASE JoinReduceThreads
  BY <1>28 DEF JoinReduceThreads
<1>29. CASE Collate
  BY <1>29 DEF Collate
<1>30. CASE Return
  BY <1>30 DEF Return
<1>31. CASE UNCHANGED vars
  BY <1>31 DEF vars
<1>. QED
  BY <1>1, <1>2, <1>3, <1>4, <1>5, <1>6, <1>7, <1>8, <1>9, <1>10, <1>11, <1>12,
     <1>13, <1>14, <1>15, <1>16, <1>17, <1>18, <1>19, <1>20, <1>21, <1>22, <1>23, <1>24,
     <1>25, <1>26, <1>27, <1>28, <1>29, <1>30, <1>31 DEF Next, MapStep, ReduceStep, MainStep, Terminated

LEMMA EmptyKnownNext ==
  TypeInv /\ PhaseInv /\ MergeRegion /\ EmptyKnown /\ [Next]_vars => EmptyKnown'
<1>. SUFFICES ASSUME TypeInv, PhaseInv, MergeRegion, EmptyKnown, [Next]_vars
              PROVE  EmptyKnown'
  OBVIOUS
<1>. USE DEF TypeInv, TypeOK, PhaseInv, MergeRegion, EmptyKnown, Merging, Goto, MapLabels,
             ReduceLabels, keyVars, mergeVars, reduceVars, mainVars
<1>1. ASSUME NEW w \in Workers, LockKeys(w)
      PROVE  EmptyKnown'
  BY <1>1 DEF LockKeys
<1>2. ASSUME NEW w \in Workers, NewKeyThrows(w)
      PROVE  EmptyKnown'
  BY <1>2 DEF NewKeyThrows
<1>3. ASSUME NEW w \in Workers, ReadSequence(w)
      PROVE  EmptyKnown'
  BY <1>3 DEF ReadSequence
<1>4. ASSUME NEW w \in Workers, SetupKey(w)
      PROVE  EmptyKnown'
  BY <1>4 DEF SetupKey
<1>5. ASSUME NEW w \in Workers, RunMapTask(w)
      PROVE  EmptyKnown'
  BY <1>5 DEF RunMapTask
<1>6. ASSUME NEW w \in Workers, MapTaskThrows(w)
      PROVE  EmptyKnown'
  BY <1>6 DEF MapTaskThrows
<1>7. ASSUME NEW w \in Workers, LockStore(w)
      PROVE  EmptyKnown'
  BY <1>7 DEF LockStore
<1>8. ASSUME NEW w \in Workers, TestEmpty(w)
      PROVE  EmptyKnown'
  BY <1>8 DEF TestEmpty, MapOf, EmptyMap
<1>9. ASSUME NEW w \in Workers, SwapIn(w)
      PROVE  EmptyKnown'
  BY <1>9 DEF SwapIn
<1>10. ASSUME NEW w \in Workers, InsertInto(w)
      PROVE  EmptyKnown'
  BY <1>10 DEF InsertInto
<1>11. ASSUME NEW w \in Workers, InsertThrows(w)
      PROVE  EmptyKnown'
  BY <1>11 DEF InsertThrows
<1>12. ASSUME NEW w \in Workers, FinishMerge(w)
      PROVE  EmptyKnown'
  BY <1>12 DEF FinishMerge
<1>13. ASSUME NEW w \in Workers, RecordMapTime(w)
      PROVE  EmptyKnown'
  BY <1>13 DEF RecordMapTime
<1>14. ASSUME NEW w \in Workers, MapTimesThrows(w)
      PROVE  EmptyKnown'
  BY <1>14 DEF MapTimesThrows
<1>15. ASSUME NEW w \in Workers, LockPartition(w)
      PROVE  EmptyKnown'
  BY <1>15 DEF LockPartition
<1>16. ASSUME NEW w \in Workers, ReadPartition(w)
      PROVE  EmptyKnown'
  BY <1>16 DEF ReadPartition
<1>17. ASSUME NEW w \in Workers, IncrPartition(w)
      PROVE  EmptyKnown'
  BY <1>17 DEF IncrPartition
<1>18. ASSUME NEW w \in Workers, SwapOut(w)
      PROVE  EmptyKnown'
  BY <1>18 DEF SwapOut
<1>19. ASSUME NEW w \in Workers, ReduceKey(w)
      PROVE  EmptyKnown'
  BY <1>19 DEF ReduceKey
<1>20. ASSUME NEW w \in Workers, ReduceThrows(w)
      PROVE  EmptyKnown'
  BY <1>20 DEF ReduceThrows
<1>21. ASSUME NEW w \in Workers, FinishPartition(w)
      PROVE  EmptyKnown'
  BY <1>21 DEF FinishPartition
<1>22. ASSUME NEW w \in Workers, RecordReduceTime(w)
      PROVE  EmptyKnown'
  BY <1>22 DEF RecordReduceTime
<1>23. ASSUME NEW w \in Workers, ReduceTimesThrows(w)
      PROVE  EmptyKnown'
  BY <1>23 DEF ReduceTimesThrows
<1>24. CASE JoinMapThreads
  BY <1>24 DEF JoinMapThreads
<1>25. CASE StartShuffle
  BY <1>25 DEF StartShuffle
<1>26. CASE NextRound
  BY <1>26 DEF NextRound
<1>27. CASE JoinShuffleThreads
  BY <1>27 DEF JoinShuffleThreads
<1>28. CASE JoinReduceThreads
  BY <1>28 DEF JoinReduceThreads
<1>29. CASE Collate
  BY <1>29 DEF Collate
<1>30. CASE Return
  BY <1>30 DEF Return
<1>31. CASE UNCHANGED vars
  BY <1>31 DEF vars
<1>. QED
  BY <1>1, <1>2, <1>3, <1>4, <1>5, <1>6, <1>7, <1>8, <1>9, <1>10, <1>11, <1>12,
     <1>13, <1>14, <1>15, <1>16, <1>17, <1>18, <1>19, <1>20, <1>21, <1>22, <1>23, <1>24,
     <1>25, <1>26, <1>27, <1>28, <1>29, <1>30, <1>31 DEF Next, MapStep, ReduceStep, MainStep, Terminated

LEMMA InListAppend ==
  ASSUME NEW node \in MaybeBag, NEW list \in Bags, NEW k \in Keys
  PROVE  InList(Append(node, list), k) = InList(node, k) + list[k]
<1>1. CASE node = Absent
  BY <1>1, AbsentAssumption DEF InList, Append, Bags
<1>2. CASE node # Absent
  <2>1. node \in Bags
    BY <1>2 DEF MaybeBag
  <2>2. [j \in Keys |-> node[j] + list[j]] \in Bags
    BY <2>1 DEF Bags
  <2>. QED
    BY <1>2, <2>1, <2>2, AbsentAssumption DEF InList, Append
<1>. QED
  BY <1>1, <1>2

LEMMA InListType ==
  ASSUME NEW node \in MaybeBag, NEW k \in Keys
  PROVE  InList(node, k) \in Nat
BY DEF InList, MaybeBag, Bags

LEMMA InListEmitted ==
  ASSUME NEW k \in Keys, NEW r \in RKeys, NEW j \in Keys
  PROVE  InList(Emitted(k)[r], j) = IF j = k THEN Emit[k][r] ELSE 0
<1>1. CASE Emit[k][r] = 0
  BY <1>1 DEF Emitted, InList
<1>2. CASE Emit[k][r] # 0
  <2>1. Emit[k][r] > 0
    BY <1>2
  <2>2. Emitted(k)[r] \in Bags /\ Emitted(k)[r][j] = IF j = k THEN Emit[k][r] ELSE 0
    BY <2>1, EmittedList
  <2>3. Emitted(k)[r] # Absent
    BY <2>2, AbsentAssumption
  <2>. QED
    BY <2>2, <2>3 DEF InList
<1>. QED
  BY <1>1, <1>2

LEMMA NextBelow ==
  ASSUME NEW a \in Nat, NEW b \in Nat, a # b
  PROVE  a < b + 1 <=> a < b
OBVIOUS

(* A merge changes what is stored of its own key only, ... *)
LEMMA MergeFrame ==
  ASSUME TypeInv, EmptyKnown, NEW w \in Workers,
         SwapIn(w) \/ InsertInto(w) \/ InsertThrows(w),
         NEW r \in RKeys, NEW j \in Keys, j # key[w]
  PROVE  InList(store'[r], j) = InList(store[r], j)
<1>. USE DEF TypeInv, TypeOK, HoldsKey
<1>1. key[w] \in Keys
  BY DEF SwapIn, InsertInto, InsertThrows, Keys
<1>2. CASE SwapIn(w)
  <2>1. Part[r] = part[w] => store[r] = Absent
    BY <1>2 DEF SwapIn, EmptyKnown
  <2>. QED
    BY <1>1, <1>2, <2>1, InListEmitted DEF SwapIn, InList
<1>3. ASSUME NEW q \in RKeys, Emit[key[w]][q] > 0
      PROVE  InList(Append(store[q], Emitted(key[w])[q]), j) = InList(store[q], j)
  <2>1. Emitted(key[w])[q] \in Bags /\ Emitted(key[w])[q][j] = 0
    BY <1>1, <1>3, EmittedList
  <2>2. store[q] \in MaybeBag
    OBVIOUS
  <2>3. InList(Append(store[q], Emitted(key[w])[q]), j)
          = InList(store[q], j) + Emitted(key[w])[q][j]
    BY <2>1, <2>2, InListAppend
  <2>4. InList(store[q], j) \in Nat
    BY <2>2, InListType
  <2>. QED
    BY <2>1, <2>3, <2>4
<1>4. CASE InsertInto(w)
  BY <1>3, <1>4 DEF InsertInto
<1>5. CASE InsertThrows(w)
  <2>1. ASSUME NEW q \in RKeys, NEW n \in Nat
        PROVE  InList(Append(store[q], Copies(key[w], n)), j) = InList(store[q], j)
    <3>1. Copies(key[w], n) \in Bags /\ Copies(key[w], n)[j] = 0
      BY CopiesType DEF Copies
    <3>2. store[q] \in MaybeBag
      OBVIOUS
    <3>3. InList(Append(store[q], Copies(key[w], n)), j)
            = InList(store[q], j) + Copies(key[w], n)[j]
      BY <3>1, <3>2, InListAppend
    <3>4. InList(store[q], j) \in Nat
      BY <3>2, InListType
    <3>. QED
      BY <3>1, <3>3, <3>4
  <2>2. PICK q \in RKeys :
          \E node \in {store[q]} \cup
            {Append(store[q], Copies(key[w], n)) : n \in 0 .. Emit[key[w]][q] - 1} :
            store' = [p \in RKeys |->
                        CASE p = q -> node
                          [] p < q /\ Part[p] = part[w] /\ Emit[key[w]][p] > 0 ->
                               Append(store[p], Emitted(key[w])[p])
                          [] OTHER -> store[p]]
    BY <1>5 DEF InsertThrows
  <2>3. \A n \in 0 .. Emit[key[w]][q] - 1 : n \in Nat
    BY <1>1
  <2>. QED
    BY <1>3, <2>1, <2>2, <2>3
<1>. QED
  BY <1>2, <1>4, <1>5

(* ... and when it succeeds it adds that key's values for the partition. *)
LEMMA MergeAdds ==
  ASSUME TypeInv, EmptyKnown, NEW w \in Workers, SwapIn(w) \/ InsertInto(w),
         NEW r \in RKeys
  PROVE  InList(store'[r], key[w]) =
           IF Part[r] = part[w] THEN InList(store[r], key[w]) + Emit[key[w]][r]
           ELSE InList(store[r], key[w])
<1>. USE DEF TypeInv, TypeOK, HoldsKey
<1>1. key[w] \in Keys
  BY DEF SwapIn, InsertInto, Keys
<1>2. CASE SwapIn(w)
  <2>1. Part[r] = part[w] => InList(store[r], key[w]) = 0
    BY <1>2 DEF SwapIn, EmptyKnown, InList
  <2>. QED
    BY <1>1, <1>2, <2>1, InListEmitted DEF SwapIn
<1>3. CASE InsertInto(w)
  <2>1. Emit[key[w]][r] \in Nat /\ InList(store[r], key[w]) \in Nat
    BY <1>1, InListType
  <2>2. CASE Emit[key[w]][r] > 0
    <3>1. Emitted(key[w])[r] \in Bags /\ Emitted(key[w])[r][key[w]] = Emit[key[w]][r]
      BY <1>1, <2>2, EmittedList
    <3>2. store[r] \in MaybeBag
      OBVIOUS
    <3>3. InList(Append(store[r], Emitted(key[w])[r]), key[w])
            = InList(store[r], key[w]) + Emit[key[w]][r]
      BY <1>1, <3>1, <3>2, InListAppend
    <3>. QED
      BY <1>3, <2>2, <3>3 DEF InsertInto
  <2>3. CASE Emit[key[w]][r] = 0
    BY <1>3, <2>1, <2>3 DEF InsertInto
  <2>. QED
    BY <2>1, <2>2, <2>3
<1>. QED
  BY <1>2, <1>3

LEMMA UnclaimedNext ==
  TypeInv /\ PhaseInv /\ ClaimInv /\ MergeInv /\ [Next]_vars => Unclaimed'
<1>. SUFFICES ASSUME TypeInv, PhaseInv, ClaimInv, MergeInv, Unclaimed, [Next]_vars
              PROVE  Unclaimed'
  BY DEF MergeInv
<1>. USE DEF TypeInv, TypeOK, PhaseInv, ClaimInv, ClaimedOnce, Unclaimed, HoldsKey, InKeyRegion, Goto,
             MapLabels, ReduceLabels, keyVars, mergeVars, reduceVars, mainVars
<1>1. ASSUME NEW w \in Workers, LockKeys(w)
      PROVE  Unclaimed'
  BY <1>1 DEF LockKeys
<1>2. ASSUME NEW w \in Workers, NewKeyThrows(w)
      PROVE  Unclaimed'
  BY <1>2 DEF NewKeyThrows
<1>3. ASSUME NEW w \in Workers, ReadSequence(w)
      PROVE  Unclaimed'
  BY <1>3 DEF ReadSequence
<1>4. ASSUME NEW w \in Workers, SetupKey(w)
      PROVE  Unclaimed'
  <2>1. sequence' = sequence + 1 /\ store' = store /\ phase' = phase
    BY <1>4 DEF SetupKey
  <2>. QED
    BY <2>1 DEF Keys
<1>5. ASSUME NEW w \in Workers, RunMapTask(w)
      PROVE  Unclaimed'
  BY <1>5 DEF RunMapTask
<1>6. ASSUME NEW w \in Workers, MapTaskThrows(w)
      PROVE  Unclaimed'
  BY <1>6 DEF MapTaskThrows
<1>7. ASSUME NEW w \in Workers, LockStore(w)
      PROVE  Unclaimed'
  BY <1>7 DEF LockStore
<1>8. ASSUME NEW w \in Workers, TestEmpty(w)
      PROVE  Unclaimed'
  BY <1>8 DEF TestEmpty
<1>9. ASSUME NEW w \in Workers, SwapIn(w)
      PROVE  Unclaimed'
  <2>1. \A r \in RKeys, j \in Keys : j # key[w] => InList(store'[r], j) = InList(store[r], j)
    BY <1>9, MergeFrame DEF MergeInv
  <2>. QED
    BY <1>9, <2>1 DEF SwapIn
<1>10. ASSUME NEW w \in Workers, InsertInto(w)
      PROVE  Unclaimed'
  <2>1. \A r \in RKeys, j \in Keys : j # key[w] => InList(store'[r], j) = InList(store[r], j)
    BY <1>10, MergeFrame DEF MergeInv
  <2>. QED
    BY <1>10, <2>1 DEF InsertInto
<1>11. ASSUME NEW w \in Workers, InsertThrows(w)
      PROVE  Unclaimed'
  <2>1. \A r \in RKeys, j \in Keys : j # key[w] => InList(store'[r], j) = InList(store[r], j)
    BY <1>11, MergeFrame DEF MergeInv
  <2>2. /\ phase' = phase /\ sequence' = sequence /\ merged' = merged
        /\ key[w] < sequence /\ key[w] \notin merged
    BY <1>11 DEF InsertThrows
  <2>. QED
    BY <2>1, <2>2 DEF Keys
<1>12. ASSUME NEW w \in Workers, FinishMerge(w)
      PROVE  Unclaimed'
  BY <1>12 DEF FinishMerge
<1>13. ASSUME NEW w \in Workers, RecordMapTime(w)
      PROVE  Unclaimed'
  BY <1>13 DEF RecordMapTime
<1>14. ASSUME NEW w \in Workers, MapTimesThrows(w)
      PROVE  Unclaimed'
  BY <1>14 DEF MapTimesThrows
<1>15. ASSUME NEW w \in Workers, LockPartition(w)
      PROVE  Unclaimed'
  BY <1>15 DEF LockPartition
<1>16. ASSUME NEW w \in Workers, ReadPartition(w)
      PROVE  Unclaimed'
  BY <1>16 DEF ReadPartition
<1>17. ASSUME NEW w \in Workers, IncrPartition(w)
      PROVE  Unclaimed'
  BY <1>17 DEF IncrPartition
<1>18. ASSUME NEW w \in Workers, SwapOut(w)
      PROVE  Unclaimed'
  BY <1>18 DEF SwapOut
<1>19. ASSUME NEW w \in Workers, ReduceKey(w)
      PROVE  Unclaimed'
  BY <1>19 DEF ReduceKey
<1>20. ASSUME NEW w \in Workers, ReduceThrows(w)
      PROVE  Unclaimed'
  BY <1>20 DEF ReduceThrows
<1>21. ASSUME NEW w \in Workers, FinishPartition(w)
      PROVE  Unclaimed'
  BY <1>21 DEF FinishPartition
<1>22. ASSUME NEW w \in Workers, RecordReduceTime(w)
      PROVE  Unclaimed'
  BY <1>22 DEF RecordReduceTime
<1>23. ASSUME NEW w \in Workers, ReduceTimesThrows(w)
      PROVE  Unclaimed'
  BY <1>23 DEF ReduceTimesThrows
<1>24. CASE JoinMapThreads
  BY <1>24 DEF JoinMapThreads
<1>25. CASE StartShuffle
  BY <1>25 DEF StartShuffle
<1>26. CASE NextRound
  BY <1>26 DEF NextRound
<1>27. CASE JoinShuffleThreads
  BY <1>27 DEF JoinShuffleThreads
<1>28. CASE JoinReduceThreads
  BY <1>28 DEF JoinReduceThreads
<1>29. CASE Collate
  BY <1>29 DEF Collate
<1>30. CASE Return
  BY <1>30 DEF Return
<1>31. CASE UNCHANGED vars
  BY <1>31 DEF vars
<1>. QED
  BY <1>1, <1>2, <1>3, <1>4, <1>5, <1>6, <1>7, <1>8, <1>9, <1>10, <1>11, <1>12,
     <1>13, <1>14, <1>15, <1>16, <1>17, <1>18, <1>19, <1>20, <1>21, <1>22, <1>23, <1>24,
     <1>25, <1>26, <1>27, <1>28, <1>29, <1>30, <1>31 DEF Next, MapStep, ReduceStep, MainStep, Terminated

LEMMA SettledNext ==
  TypeInv /\ PhaseInv /\ ClaimInv /\ MergeInv /\ [Next]_vars => Settled'
<1>. SUFFICES ASSUME TypeInv, PhaseInv, ClaimInv, MergeInv, Settled, [Next]_vars
              PROVE  Settled'
  BY DEF MergeInv
<1>. USE DEF TypeInv, TypeOK, PhaseInv, ClaimInv, ClaimedOnce, Settled, HoldsKey, Keys, Goto,
             MapLabels, ReduceLabels, keyVars, mergeVars, reduceVars, mainVars
<1>1. ASSUME NEW w \in Workers, LockKeys(w)
      PROVE  Settled'
  BY <1>1 DEF LockKeys
<1>2. ASSUME NEW w \in Workers, NewKeyThrows(w)
      PROVE  Settled'
  BY <1>2 DEF NewKeyThrows
<1>3. ASSUME NEW w \in Workers, ReadSequence(w)
      PROVE  Settled'
  BY <1>3 DEF ReadSequence
<1>4. ASSUME NEW w \in Workers, SetupKey(w)
      PROVE  Settled'
  BY <1>4 DEF SetupKey
<1>5. ASSUME NEW w \in Workers, RunMapTask(w)
      PROVE  Settled'
  BY <1>5 DEF RunMapTask
<1>6. ASSUME NEW w \in Workers, MapTaskThrows(w)
      PROVE  Settled'
  BY <1>6 DEF MapTaskThrows
<1>7. ASSUME NEW w \in Workers, LockStore(w)
      PROVE  Settled'
  BY <1>7 DEF LockStore
<1>8. ASSUME NEW w \in Workers, TestEmpty(w)
      PROVE  Settled'
  BY <1>8 DEF TestEmpty
<1>9. ASSUME NEW w \in Workers, SwapIn(w)
      PROVE  Settled'
  <2>1. \A r \in RKeys, j \in Keys : j # key[w] => InList(store'[r], j) = InList(store[r], j)
    BY <1>9, MergeFrame DEF MergeInv
  <2>. QED
    BY <1>9, <2>1 DEF SwapIn
<1>10. ASSUME NEW w \in Workers, InsertInto(w)
      PROVE  Settled'
  <2>1. \A r \in RKeys, j \in Keys : j # key[w] => InList(store'[r], j) = InList(store[r], j)
    BY <1>10, MergeFrame DEF MergeInv
  <2>. QED
    BY <1>10, <2>1 DEF InsertInto
<1>11. ASSUME NEW w \in Workers, InsertThrows(w)
      PROVE  Settled'
  <2>1. \A r \in RKeys, j \in Keys : j # key[w] => InList(store'[r], j) = InList(store[r], j)
    BY <1>11, MergeFrame DEF MergeInv
  <2>2. /\ phase' = phase /\ sequence' = sequence /\ merged' = merged
        /\ key[w] < sequence /\ key[w] \notin merged
    BY <1>11 DEF InsertThrows
  <2>. QED
    BY <2>1, <2>2 DEF Keys
<1>12. ASSUME NEW w \in Workers, FinishMerge(w)
      PROVE  Settled'
  <2>1. /\ merged' = merged \cup {key[w]} /\ store' = store /\ phase' = phase
        /\ phase = "map" /\ Merging(w) /\ HoldsKey(w) /\ part[w] = P
    BY <1>12 DEF FinishMerge, Merging
  <2>2. ASSUME NEW r \in RKeys
        PROVE  InList(store[r], key[w]) = Emit[key[w]][r]
    <3>1. Part[r] < P
      BY DEF Partitions
    <3>. QED
      BY <2>1, <3>1 DEF MergeInv, InProgress
  <2>. QED
    BY <2>1, <2>2
<1>13. ASSUME NEW w \in Workers, RecordMapTime(w)
      PROVE  Settled'
  BY <1>13 DEF RecordMapTime
<1>14. ASSUME NEW w \in Workers, MapTimesThrows(w)
      PROVE  Settled'
  BY <1>14 DEF MapTimesThrows
<1>15. ASSUME NEW w \in Workers, LockPartition(w)
      PROVE  Settled'
  BY <1>15 DEF LockPartition
<1>16. ASSUME NEW w \in Workers, ReadPartition(w)
      PROVE  Settled'
  BY <1>16 DEF ReadPartition
<1>17. ASSUME NEW w \in Workers, IncrPartition(w)
      PROVE  Settled'
  BY <1>17 DEF IncrPartition
<1>18. ASSUME NEW w \in Workers, SwapOut(w)
      PROVE  Settled'
  BY <1>18 DEF SwapOut
<1>19. ASSUME NEW w \in Workers, ReduceKey(w)
      PROVE  Settled'
  BY <1>19 DEF ReduceKey
<1>20. ASSUME NEW w \in Workers, ReduceThrows(w)
      PROVE  Settled'
  BY <1>20 DEF ReduceThrows
<1>21. ASSUME NEW w \in Workers, FinishPartition(w)
      PROVE  Settled'
  BY <1>21 DEF FinishPartition
<1>22. ASSUME NEW w \in Workers, RecordReduceTime(w)
      PROVE  Settled'
  BY <1>22 DEF RecordReduceTime
<1>23. ASSUME NEW w \in Workers, ReduceTimesThrows(w)
      PROVE  Settled'
  BY <1>23 DEF ReduceTimesThrows
<1>24. CASE JoinMapThreads
  BY <1>24 DEF JoinMapThreads
<1>25. CASE StartShuffle
  BY <1>25 DEF StartShuffle
<1>26. CASE NextRound
  BY <1>26 DEF NextRound
<1>27. CASE JoinShuffleThreads
  BY <1>27 DEF JoinShuffleThreads
<1>28. CASE JoinReduceThreads
  BY <1>28 DEF JoinReduceThreads
<1>29. CASE Collate
  BY <1>29 DEF Collate
<1>30. CASE Return
  BY <1>30 DEF Return
<1>31. CASE UNCHANGED vars
  BY <1>31 DEF vars
<1>. QED
  BY <1>1, <1>2, <1>3, <1>4, <1>5, <1>6, <1>7, <1>8, <1>9, <1>10, <1>11, <1>12,
     <1>13, <1>14, <1>15, <1>16, <1>17, <1>18, <1>19, <1>20, <1>21, <1>22, <1>23, <1>24,
     <1>25, <1>26, <1>27, <1>28, <1>29, <1>30, <1>31 DEF Next, MapStep, ReduceStep, MainStep, Terminated

LEMMA InProgressNext ==
  TypeInv /\ PhaseInv /\ ClaimInv /\ MergeInv /\ [Next]_vars => InProgress'
<1>. SUFFICES ASSUME TypeInv, PhaseInv, ClaimInv, MergeInv, InProgress, [Next]_vars
              PROVE  InProgress'
  BY DEF MergeInv
<1>. USE DEF TypeInv, TypeOK, PhaseInv, ClaimInv, ClaimedOnce, InProgress, HoldsKey, Goto,
             MapLabels, ReduceLabels, keyVars, mergeVars, reduceVars, mainVars
<1>1. ASSUME NEW w \in Workers, LockKeys(w)
      PROVE  InProgress'
  BY <1>1 DEF LockKeys, Merging
<1>2. ASSUME NEW w \in Workers, NewKeyThrows(w)
      PROVE  InProgress'
  BY <1>2 DEF NewKeyThrows, Merging
<1>3. ASSUME NEW w \in Workers, ReadSequence(w)
      PROVE  InProgress'
  BY <1>3 DEF ReadSequence, Merging
<1>4. ASSUME NEW w \in Workers, SetupKey(w)
      PROVE  InProgress'
  <2>1. /\ store' = store /\ part' = part /\ phase' = phase /\ key' = key
        /\ key[w] = sequence /\ (HoldsKey(w)' => key[w] \in Keys) /\ ~Merging(w)'
    BY <1>4 DEF SetupKey, Keys, Merging
  <2>2. \A v \in Workers \ {w} : pc'[v] = pc[v]
    BY <1>4 DEF SetupKey, Merging
  <2>3. phase = "map" => \A r \in RKeys : HoldsKey(w)' => InList(store[r], key[w]) = 0
    BY <2>1 DEF MergeInv, Unclaimed
  <2>. QED
    BY <2>1, <2>2, <2>3 DEF Merging
<1>5. ASSUME NEW w \in Workers, RunMapTask(w)
      PROVE  InProgress'
  BY <1>5 DEF RunMapTask, Merging
<1>6. ASSUME NEW w \in Workers, MapTaskThrows(w)
      PROVE  InProgress'
  BY <1>6 DEF MapTaskThrows, Merging
<1>7. ASSUME NEW w \in Workers, LockStore(w)
      PROVE  InProgress'
  <2>1. /\ store' = store /\ phase' = phase /\ key' = key
        /\ HoldsKey(w) /\ ~Merging(w) /\ part'[w] = 0
    BY <1>7 DEF LockStore, Merging
  <2>2. \A v \in Workers \ {w} : pc'[v] = pc[v] /\ part'[v] = part[v]
    BY <1>7 DEF LockStore, Merging
  <2>3. \A r \in RKeys : ~(Part[r] < part'[w])
    BY <2>1 DEF Partitions
  <2>. QED
    BY <2>1, <2>2, <2>3 DEF Merging
<1>8. ASSUME NEW w \in Workers, TestEmpty(w)
      PROVE  InProgress'
  BY <1>8 DEF TestEmpty, Merging
<1>9. ASSUME NEW w \in Workers, SwapIn(w)
      PROVE  InProgress'
  <2>1. /\ phase' = phase /\ key' = key /\ HoldsKey(w) /\ Merging(w) /\ Merging(w)'
        /\ part'[w] = part[w] + 1 /\ phase = "map" /\ key[w] \in Keys
    BY <1>9 DEF SwapIn, Merging, Keys
  <2>2. \A v \in Workers \ {w} : pc'[v] = pc[v] /\ part'[v] = part[v]
    BY <1>9 DEF SwapIn, Merging
  <2>3. ASSUME NEW r \in RKeys
        PROVE  InList(store'[r], key[w]) = IF Part[r] < part'[w] THEN Emit[key[w]][r] ELSE 0
    <3>1. Part[r] \in Nat /\ Emit[key[w]][r] \in Nat /\ part[w] \in Nat
      BY <2>1 DEF Partitions
    <3>2. InList(store[r], key[w]) = IF Part[r] < part[w] THEN Emit[key[w]][r] ELSE 0
      BY <2>1
    <3>3. InList(store'[r], key[w]) =
            IF Part[r] = part[w] THEN InList(store[r], key[w]) + Emit[key[w]][r]
            ELSE InList(store[r], key[w])
      BY <1>9, MergeAdds DEF MergeInv
    <3>4. part'[w] = part[w] + 1
      BY <2>1
    <3>5. CASE Part[r] = part[w]
      BY <3>1, <3>2, <3>3, <3>4, <3>5
    <3>6. CASE Part[r] # part[w]
      <4>1. Part[r] < part[w] + 1 <=> Part[r] < part[w]
        BY <3>1, <3>6, NextBelow
      <4>. QED
        BY <3>2, <3>3, <3>4, <3>6, <4>1
    <3>. QED
      BY <3>5, <3>6
  <2>4. ASSUME NEW v \in Workers \ {w}, NEW r \in RKeys, HoldsKey(v)
        PROVE  InList(store'[r], key[v]) = InList(store[r], key[v])
    <3>1. key[v] \in Keys /\ key[v] # key[w]
      BY <2>1, <2>4 DEF Keys
    <3>. QED
      BY <1>9, <3>1, MergeFrame DEF MergeInv
  <2>. QED
    BY <2>1, <2>2, <2>3, <2>4 DEF Merging
<1>10. ASSUME NEW w \in Workers, InsertInto(w)
      PROVE  InProgress'
  <2>1. /\ phase' = phase /\ key' = key /\ HoldsKey(w) /\ Merging(w) /\ Merging(w)'
        /\ part'[w] = part[w] + 1 /\ phase = "map" /\ key[w] \in Keys
    BY <1>10 DEF InsertInto, Merging, Keys
  <2>2. \A v \in Workers \ {w} : pc'[v] = pc[v] /\ part'[v] = part[v]
    BY <1>10 DEF InsertInto, Merging
  <2>3. ASSUME NEW r \in RKeys
        PROVE  InList(store'[r], key[w]) = IF Part[r] < part'[w] THEN Emit[key[w]][r] ELSE 0
    <3>1. Part[r] \in Nat /\ Emit[key[w]][r] \in Nat /\ part[w] \in Nat
      BY <2>1 DEF Partitions
    <3>2. InList(store[r], key[w]) = IF Part[r] < part[w] THEN Emit[key[w]][r] ELSE 0
      BY <2>1
    <3>3. InList(store'[r], key[w]) =
            IF Part[r] = part[w] THEN InList(store[r], key[w]) + Emit[key[w]][r]
            ELSE InList(store[r], key[w])
      BY <1>10, MergeAdds DEF MergeInv
    <3>4. part'[w] = part[w] + 1
      BY <2>1
    <3>5. CASE Part[r] = part[w]
      BY <3>1, <3>2, <3>3, <3>4, <3>5
    <3>6. CASE Part[r] # part[w]
      <4>1. Part[r] < part[w] + 1 <=> Part[r] < part[w]
        BY <3>1, <3>6, NextBelow
      <4>. QED
        BY <3>2, <3>3, <3>4, <3>6, <4>1
    <3>. QED
      BY <3>5, <3>6
  <2>4. ASSUME NEW v \in Workers \ {w}, NEW r \in RKeys, HoldsKey(v)
        PROVE  InList(store'[r], key[v]) = InList(store[r], key[v])
    <3>1. key[v] \in Keys /\ key[v] # key[w]
      BY <2>1, <2>4 DEF Keys
    <3>. QED
      BY <1>10, <3>1, MergeFrame DEF MergeInv
  <2>. QED
    BY <2>1, <2>2, <2>3, <2>4 DEF Merging
<1>11. ASSUME NEW w \in Workers, InsertThrows(w)
      PROVE  InProgress'
  <2>1. phase' = phase /\ key' = key /\ part' = part /\ HoldsKey(w) /\ ~HoldsKey(w)'
    BY <1>11 DEF InsertThrows, Merging
  <2>2. \A v \in Workers \ {w} : pc'[v] = pc[v]
    BY <1>11 DEF InsertThrows, Merging
  <2>3. ASSUME NEW v \in Workers \ {w}, NEW r \in RKeys, HoldsKey(v)
        PROVE  InList(store'[r], key[v]) = InList(store[r], key[v])
    <3>1. key[v] \in Keys /\ key[v] # key[w]
      BY <2>1, <2>3 DEF Keys
    <3>. QED
      BY <1>11, <3>1, MergeFrame DEF MergeInv
  <2>. QED
    BY <2>1, <2>2, <2>3 DEF Merging
<1>12. ASSUME NEW w \in Workers, FinishMerge(w)
      PROVE  InProgress'
  BY <1>12 DEF FinishMerge, Merging
<1>13. ASSUME NEW w \in Workers, RecordMapTime(w)
      PROVE  InProgress'
  BY <1>13 DEF RecordMapTime, Merging
<1>14. ASSUME NEW w \in Workers, MapTimesThrows(w)
      PROVE  InProgress'
  BY <1>14 DEF MapTimesThrows, Merging
<1>15. ASSUME NEW w \in Workers, LockPartition(w)
      PROVE  InProgress'
  BY <1>15 DEF LockPartition, Merging
<1>16. ASSUME NEW w \in Workers, ReadPartition(w)
      PROVE  InProgress'
  BY <1>16 DEF ReadPartition, Merging
<1>17. ASSUME NEW w \in Workers, IncrPartition(w)
      PROVE  InProgress'
  BY <1>17 DEF IncrPartition, Merging
<1>18. ASSUME NEW w \in Workers, SwapOut(w)
      PROVE  InProgress'
  BY <1>18 DEF SwapOut, Merging
<1>19. ASSUME NEW w \in Workers, ReduceKey(w)
      PROVE  InProgress'
  BY <1>19 DEF ReduceKey, Merging
<1>20. ASSUME NEW w \in Workers, ReduceThrows(w)
      PROVE  InProgress'
  BY <1>20 DEF ReduceThrows, Merging
<1>21. ASSUME NEW w \in Workers, FinishPartition(w)
      PROVE  InProgress'
  BY <1>21 DEF FinishPartition, Merging
<1>22. ASSUME NEW w \in Workers, RecordReduceTime(w)
      PROVE  InProgress'
  BY <1>22 DEF RecordReduceTime, Merging
<1>23. ASSUME NEW w \in Workers, ReduceTimesThrows(w)
      PROVE  InProgress'
  BY <1>23 DEF ReduceTimesThrows, Merging
<1>24. CASE JoinMapThreads
  BY <1>24 DEF JoinMapThreads, Merging
<1>25. CASE StartShuffle
  BY <1>25 DEF StartShuffle, Merging
<1>26. CASE NextRound
  BY <1>26 DEF NextRound, Merging
<1>27. CASE JoinShuffleThreads
  BY <1>27 DEF JoinShuffleThreads, Merging
<1>28. CASE JoinReduceThreads
  BY <1>28 DEF JoinReduceThreads, Merging
<1>29. CASE Collate
  BY <1>29 DEF Collate, Merging
<1>30. CASE Return
  BY <1>30 DEF Return, Merging
<1>31. CASE UNCHANGED vars
  BY <1>31 DEF vars, Merging
<1>. QED
  BY <1>1, <1>2, <1>3, <1>4, <1>5, <1>6, <1>7, <1>8, <1>9, <1>10, <1>11, <1>12,
     <1>13, <1>14, <1>15, <1>16, <1>17, <1>18, <1>19, <1>20, <1>21, <1>22, <1>23, <1>24,
     <1>25, <1>26, <1>27, <1>28, <1>29, <1>30, <1>31 DEF Next, MapStep, ReduceStep, MainStep, Terminated

LEMMA MergeInit == Init => MergeInv
BY DEF Init, MergeInv, MergeRegion, EmptyKnown, Unclaimed, InProgress, Settled, Merging,
       HoldsKey, EmptyMap, InList

(* What map_keys_completed counts is in the store, once, when the reducers    *)
(* start: the swap and the copies of the merges never lose or repeat a value. *)
THEOREM ExactlyOnceHolds == Spec => []ExactlyOnce
<1>. DEFINE IInv == TypeInv /\ PhaseInv /\ ClaimInv /\ MergeInv
<1>1. Init => IInv
  BY TypeInit, ClaimInit, MergeInit
<1>2. IInv /\ [Next]_vars => IInv'
  <2>. SUFFICES ASSUME IInv, [Next]_vars
                PROVE  MergeInv'
    BY TypeNext, PhaseNext, ClaimNext
  <2>. QED
    BY MergeRegionNext, EmptyKnownNext, UnclaimedNext, InProgressNext, SettledNext DEF MergeInv
<1>3. IInv => ExactlyOnce
  BY DEF MergeInv, Settled, ExactlyOnce, TypeInv, TypeOK, InList
<1>. QED
  BY <1>1, <1>2, <1>3, PTL DEF Spec

--------------------------------------------------------------------------------
(* The reduce mutex keeps the read and the increment of partition together. *)

LEMMA PartitionNext ==
  TypeInv /\ PhaseInv /\ PartitionInv /\ [Next]_vars => PartitionInv'
<1>. SUFFICES ASSUME TypeInv, PhaseInv, PartitionInv, [Next]_vars
              PROVE  PartitionInv'
  OBVIOUS
<1>. USE NoThreadAssumption
     DEF TypeInv, TypeOK, PhaseInv, PartitionInv, HoldsPartition, Goto, MapLabels, ReduceLabels,
         Ended, InnerLoopEnded, keyVars, mergeVars, reduceVars, mainVars
<1>1. ASSUME NEW w \in Workers, LockKeys(w)
      PROVE  PartitionInv'
  BY <1>1 DEF LockKeys
<1>2. ASSUME NEW w \in Workers, NewKeyThrows(w)
      PROVE  PartitionInv'
  BY <1>2 DEF NewKeyThrows
<1>3. ASSUME NEW w \in Workers, ReadSequence(w)
      PROVE  PartitionInv'
  BY <1>3 DEF ReadSequence
<1>4. ASSUME NEW w \in Workers, SetupKey(w)
      PROVE  PartitionInv'
  BY <1>4 DEF SetupKey
<1>5. ASSUME NEW w \in Workers, RunMapTask(w)
      PROVE  PartitionInv'
  BY <1>5 DEF RunMapTask
<1>6. ASSUME NEW w \in Workers, MapTaskThrows(w)
      PROVE  PartitionInv'
  BY <1>6 DEF MapTaskThrows
<1>7. ASSUME NEW w \in Workers, LockStore(w)
      PROVE  PartitionInv'
  BY <1>7 DEF LockStore
<1>8. ASSUME NEW w \in Workers, TestEmpty(w)
      PROVE  PartitionInv'
  BY <1>8 DEF TestEmpty
<1>9. ASSUME NEW w \in Workers, SwapIn(w)
      PROVE  PartitionInv'
  BY <1>9 DEF SwapIn
<1>10. ASSUME NEW w \in Workers, InsertInto(w)
      PROVE  PartitionInv'
  BY <1>10 DEF InsertInto
<1>11. ASSUME NEW w \in Workers, InsertThrows(w)
      PROVE  PartitionInv'
  BY <1>11 DEF InsertThrows
<1>12. ASSUME NEW w \in Workers, FinishMerge(w)
      PROVE  PartitionInv'
  BY <1>12 DEF FinishMerge
<1>13. ASSUME NEW w \in Workers, RecordMapTime(w)
      PROVE  PartitionInv'
  BY <1>13 DEF RecordMapTime
<1>14. ASSUME NEW w \in Workers, MapTimesThrows(w)
      PROVE  PartitionInv'
  BY <1>14 DEF MapTimesThrows
<1>15. ASSUME NEW w \in Workers, LockPartition(w)
      PROVE  PartitionInv'
  BY <1>15 DEF LockPartition
<1>16. ASSUME NEW w \in Workers, ReadPartition(w)
      PROVE  PartitionInv'
  BY <1>16 DEF ReadPartition
<1>17. ASSUME NEW w \in Workers, IncrPartition(w)
      PROVE  PartitionInv'
  BY <1>17 DEF IncrPartition
<1>18. ASSUME NEW w \in Workers, SwapOut(w)
      PROVE  PartitionInv'
  BY <1>18 DEF SwapOut
<1>19. ASSUME NEW w \in Workers, ReduceKey(w)
      PROVE  PartitionInv'
  BY <1>19 DEF ReduceKey
<1>20. ASSUME NEW w \in Workers, ReduceThrows(w)
      PROVE  PartitionInv'
  BY <1>20 DEF ReduceThrows
<1>21. ASSUME NEW w \in Workers, FinishPartition(w)
      PROVE  PartitionInv'
  BY <1>21 DEF FinishPartition
<1>22. ASSUME NEW w \in Workers, RecordReduceTime(w)
      PROVE  PartitionInv'
  BY <1>22 DEF RecordReduceTime
<1>23. ASSUME NEW w \in Workers, ReduceTimesThrows(w)
      PROVE  PartitionInv'
  BY <1>23 DEF ReduceTimesThrows
<1>24. CASE JoinMapThreads
  BY <1>24 DEF JoinMapThreads
<1>25. CASE StartShuffle
  BY <1>25 DEF StartShuffle
<1>26. CASE NextRound
  BY <1>26 DEF NextRound
<1>27. CASE JoinShuffleThreads
  BY <1>27 DEF JoinShuffleThreads
<1>28. CASE JoinReduceThreads
  BY <1>28 DEF JoinReduceThreads
<1>29. CASE Collate
  BY <1>29 DEF Collate
<1>30. CASE Return
  BY <1>30 DEF Return
<1>31. CASE UNCHANGED vars
  BY <1>31 DEF vars
<1>. QED
  BY <1>1, <1>2, <1>3, <1>4, <1>5, <1>6, <1>7, <1>8, <1>9, <1>10, <1>11, <1>12,
     <1>13, <1>14, <1>15, <1>16, <1>17, <1>18, <1>19, <1>20, <1>21, <1>22, <1>23, <1>24,
     <1>25, <1>26, <1>27, <1>28, <1>29, <1>30, <1>31 DEF Next, MapStep, ReduceStep, MainStep, Terminated

LEMMA RowsNext ==
  TypeInv /\ PhaseInv /\ PartitionInv /\ RowsInv /\ [Next]_vars => RowsInv'
<1>. SUFFICES ASSUME TypeInv, PhaseInv, PartitionInv, RowsInv, [Next]_vars
              PROVE  RowsInv'
  OBVIOUS
<1>. USE DEF TypeInv, TypeOK, PhaseInv, PartitionInv, RowsInv, HoldsPartition, Goto, MapLabels,
         ReduceLabels, Ended, InnerLoopEnded, keyVars, mergeVars, reduceVars, mainVars
<1>1. ASSUME NEW w \in Workers, LockKeys(w)
      PROVE  RowsInv'
  BY <1>1 DEF LockKeys
<1>2. ASSUME NEW w \in Workers, NewKeyThrows(w)
      PROVE  RowsInv'
  BY <1>2 DEF NewKeyThrows
<1>3. ASSUME NEW w \in Workers, ReadSequence(w)
      PROVE  RowsInv'
  BY <1>3 DEF ReadSequence
<1>4. ASSUME NEW w \in Workers, SetupKey(w)
      PROVE  RowsInv'
  BY <1>4 DEF SetupKey
<1>5. ASSUME NEW w \in Workers, RunMapTask(w)
      PROVE  RowsInv'
  BY <1>5 DEF RunMapTask
<1>6. ASSUME NEW w \in Workers, MapTaskThrows(w)
      PROVE  RowsInv'
  BY <1>6 DEF MapTaskThrows
<1>7. ASSUME NEW w \in Workers, LockStore(w)
      PROVE  RowsInv'
  BY <1>7 DEF LockStore
<1>8. ASSUME NEW w \in Workers, TestEmpty(w)
      PROVE  RowsInv'
  BY <1>8 DEF TestEmpty
<1>9. ASSUME NEW w \in Workers, SwapIn(w)
      PROVE  RowsInv'
  BY <1>9 DEF SwapIn
<1>10. ASSUME NEW w \in Workers, InsertInto(w)
      PROVE  RowsInv'
  BY <1>10 DEF InsertInto
<1>11. ASSUME NEW w \in Workers, InsertThrows(w)
      PROVE  RowsInv'
  BY <1>11 DEF InsertThrows
<1>12. ASSUME NEW w \in Workers, FinishMerge(w)
      PROVE  RowsInv'
  BY <1>12 DEF FinishMerge
<1>13. ASSUME NEW w \in Workers, RecordMapTime(w)
      PROVE  RowsInv'
  BY <1>13 DEF RecordMapTime
<1>14. ASSUME NEW w \in Workers, MapTimesThrows(w)
      PROVE  RowsInv'
  BY <1>14 DEF MapTimesThrows
<1>15. ASSUME NEW w \in Workers, LockPartition(w)
      PROVE  RowsInv'
  BY <1>15 DEF LockPartition
<1>16. ASSUME NEW w \in Workers, ReadPartition(w)
      PROVE  RowsInv'
  BY <1>16 DEF ReadPartition
<1>17. ASSUME NEW w \in Workers, IncrPartition(w)
      PROVE  RowsInv'
  <2>1. /\ part[w] = partition /\ partition' = partition + 1 /\ part' = part
        /\ taken' = taken /\ rows' = rows /\ phase' = phase /\ pc[w] = "incr_partition"
        /\ \A v \in Workers \ {w} : pc'[v] = pc[v]
    BY <1>17 DEF IncrPartition
  <2>2. \A r \in RKeys : Part[r] \in Nat
    BY DEF Partitions
  <2>3. ASSUME NEW v \in Workers, NEW r \in RKeys, taken'[v][r] # Absent
        PROVE  pc'[v] = "reduce" /\ Part[r] = part'[v]
    BY <2>1, <2>3
  <2>4. ASSUME NEW r \in RKeys, rows[r] = 1
        PROVE  /\ Part[r] < partition' /\ Part[r] # part[w]
               /\ \A v \in Workers : ~(pc'[v] = "swap_out" /\ part'[v] = Part[r])
    <3>1. Part[r] < partition /\ \A v \in Workers : ~(pc[v] = "swap_out" /\ part[v] = Part[r])
      BY <2>4
    <3>2. Part[r] # part[w] /\ Part[r] < partition'
      BY <2>1, <2>2, <3>1
    <3>. QED
      BY <2>1, <3>1, <3>2
  <2>. QED
    BY <2>1, <2>3, <2>4
<1>18. ASSUME NEW w \in Workers, SwapOut(w)
      PROVE  RowsInv'
  <2>1. /\ part' = part /\ partition' = partition /\ rows' = rows /\ phase' = phase
        /\ pc[w] = "swap_out" /\ pc'[w] = "reduce"
        /\ \A v \in Workers \ {w} : pc'[v] = pc[v] /\ taken'[v] = taken[v]
    BY <1>18 DEF SwapOut
  <2>2. \A r \in RKeys : taken'[w][r] # Absent => Part[r] = part[w]
    BY <1>18 DEF SwapOut, MapOf
  <2>. QED
    BY <2>1, <2>2
<1>19. ASSUME NEW w \in Workers, ReduceKey(w)
      PROVE  RowsInv'
  <2>1. PICK r \in RKeys : /\ taken[w][r] # Absent
                         /\ rows' = [rows EXCEPT ![r] = @ + 1]
                         /\ taken' = [taken EXCEPT ![w][r] = Absent]
    BY <1>19 DEF ReduceKey, IsNext, Todo
  <2>2. /\ part' = part /\ partition' = partition /\ pc' = pc /\ phase' = phase
        /\ phase = "reduce" /\ pc[w] = "reduce" /\ part[w] < partition
    BY <1>19 DEF ReduceKey
  <2>3. rows[r] = 0 /\ Part[r] = part[w]
    BY <2>1
  <2>4. ASSUME NEW v \in Workers, v # w
        PROVE  taken[v][r] = Absent /\ ~(pc[v] = "swap_out" /\ part[v] = Part[r])
    BY <2>2, <2>3, <2>4
  <2>5. /\ rows'[r] = 1 /\ \A v \in Workers : taken'[v][r] = Absent
    BY <2>1, <2>3, <2>4
  <2>6. \A q \in RKeys \ {r} :
          rows'[q] = rows[q] /\ \A v \in Workers : taken'[v][q] = taken[v][q]
    BY <2>1
  <2>7. ASSUME NEW v \in Workers, NEW q \in RKeys, taken'[v][q] # Absent
        PROVE  pc'[v] = "reduce" /\ Part[q] = part'[v]
    <3>1. q # r
      BY <2>5, <2>7
    <3>2. taken[v][q] # Absent
      BY <2>6, <2>7, <3>1
    <3>. QED
      BY <2>2, <3>2
  <2>8. ASSUME NEW q \in RKeys
        PROVE  \/ rows'[q] = 0
               \/ /\ rows'[q] = 1
                  /\ phase' \in {"reduce", "collate", "done"} /\ Part[q] < partition'
                  /\ \A v \in Workers :
                       taken'[v][q] = Absent /\ ~(pc'[v] = "swap_out" /\ part'[v] = Part[q])
    <3>1. CASE q = r
      BY <2>2, <2>3, <2>4, <2>5, <3>1
    <3>2. CASE q # r
      BY <2>2, <2>6, <3>2
    <3>. QED
      BY <3>1, <3>2
  <2>. QED
    BY <2>7, <2>8
<1>20. ASSUME NEW w \in Workers, ReduceThrows(w)
      PROVE  RowsInv'
  <2>1. /\ part' = part /\ partition' = partition /\ rows' = rows /\ phase' = phase
        /\ pc[w] = "reduce" /\ pc'[w] = "reduce_times"
        /\ \A v \in Workers \ {w} : pc'[v] = pc[v] /\ taken'[v] = taken[v]
    BY <1>20 DEF ReduceThrows
  <2>2. \A r \in RKeys : taken'[w][r] = Absent
    BY <1>20 DEF ReduceThrows, EmptyMap
  <2>. QED
    BY <2>1, <2>2
<1>21. ASSUME NEW w \in Workers, FinishPartition(w)
      PROVE  RowsInv'
  <2>1. /\ part' = part /\ partition' = partition /\ rows' = rows /\ phase' = phase
        /\ pc[w] = "reduce" /\ pc'[w] = "reduce_times"
        /\ \A v \in Workers \ {w} : pc'[v] = pc[v] /\ taken'[v] = taken[v]
    BY <1>21 DEF FinishPartition
  <2>2. \A r \in RKeys : taken'[w][r] = Absent
    BY <1>21 DEF FinishPartition, Todo
  <2>. QED
    BY <2>1, <2>2
<1>22. ASSUME NEW w \in Workers, RecordReduceTime(w)
      PROVE  RowsInv'
  BY <1>22 DEF RecordReduceTime
<1>23. ASSUME NEW w \in Workers, ReduceTimesThrows(w)
      PROVE  RowsInv'
  BY <1>23 DEF ReduceTimesThrows
<1>24. CASE JoinMapThreads
  BY <1>24 DEF JoinMapThreads
<1>25. CASE StartShuffle
  BY <1>25 DEF StartShuffle
<1>26. CASE NextRound
  BY <1>26 DEF NextRound
<1>27. CASE JoinShuffleThreads
  BY <1>27 DEF JoinShuffleThreads
<1>28. CASE JoinReduceThreads
  BY <1>28 DEF JoinReduceThreads
<1>29. CASE Collate
  BY <1>29 DEF Collate
<1>30. CASE Return
  BY <1>30 DEF Return
<1>31. CASE UNCHANGED vars
  BY <1>31 DEF vars
<1>. QED
  BY <1>1, <1>2, <1>3, <1>4, <1>5, <1>6, <1>7, <1>8, <1>9, <1>10, <1>11, <1>12,
     <1>13, <1>14, <1>15, <1>16, <1>17, <1>18, <1>19, <1>20, <1>21, <1>22, <1>23, <1>24,
     <1>25, <1>26, <1>27, <1>28, <1>29, <1>30, <1>31 DEF Next, MapStep, ReduceStep, MainStep, Terminated

LEMMA ReduceInit == Init => PartitionInv /\ RowsInv
BY DEF Init, PartitionInv, RowsInv, HoldsPartition, EmptyMap

(* Each partition is reduced by one thread and each key gets at most one      *)
(* result, whatever throws and however the reducers are scheduled.            *)
THEOREM ReducedOnceHolds == Spec => []ReducedOnce
<1>. DEFINE IInv == TypeInv /\ PhaseInv /\ PartitionInv /\ RowsInv
<1>1. Init => IInv
  BY TypeInit, ClaimInit, ReduceInit
<1>2. IInv /\ [Next]_vars => IInv'
  BY TypeNext, PhaseNext, PartitionNext, RowsNext
<1>3. IInv => ReducedOnce
  BY DEF PartitionInv, RowsInv, ReducedOnce
<1>. QED
  BY <1>1, <1>2, <1>3, PTL DEF Spec

--------------------------------------------------------------------------------
(* A run of CpuParallel is a run of JobContract. *)

(* Neither the store nor a reducer's map holds a value more often than it was *)
(* emitted, and a key that a reducer has in its map is not in the store.      *)
BoundInv ==
  /\ \A r \in RKeys, k \in Keys : InList(store[r], k) <= Emit[k][r]
  /\ \A w \in Workers, r \in RKeys :
       /\ \A k \in Keys : InList(taken[w][r], k) <= Emit[k][r]
       /\ taken[w][r] # Absent => store[r] = Absent

(* Until something is reported, a key that was handed out is held by a thread *)
(* or merged, and a thread leaves only when there are none left.              *)
Handed ==
  /\ \A w \in Workers : pc[w] # "crashed"
  /\ phase = "map" =>
       /\ \A w \in Workers : pc[w] = "exited" => N <= sequence
       /\ \A k \in Keys : k < sequence => k \in merged \/ \E w \in Workers : HoldsKey(w) /\ key[w] = k
  /\ phase # "map" => merged = Keys

(* No list is empty before it is reduced. *)
Nodes ==
  phase \in {"map", "intermediate"} =>
    \A r \in RKeys : store[r] # Absent => \E k \in Keys : InList(store[r], k) > 0

(* The list of a reduce key is complete: it waits to be reduced, is in the    *)
(* map of the reducer, or is the result.                                      *)
Waiting(r) ==
  /\ rows[r] = 0 /\ store[r] = FullList(r)
  /\ \A w \in Workers : taken[w][r] = Absent
  /\ \/ FullList(r) = Absent
     \/ partition <= Part[r]
     \/ \E w \in Workers : pc[w] = "swap_out" /\ part[w] = Part[r]
Taken(r) ==
  /\ rows[r] = 0 /\ store[r] = Absent /\ FullList(r) # Absent
  /\ \E w \in Workers : taken[w][r] = FullList(r)
Reduced(r) == rows[r] = 1 /\ store[r] = FullList(r) /\ FullList(r) # Absent

Reducing ==
  /\ phase \in {"reduce", "collate", "done"} => \A r \in RKeys : Waiting(r) \/ Taken(r) \/ Reduced(r)
  /\ phase = "reduce" => \A w \in Reducers : pc[w] = "exited" => P <= partition
  /\ phase \in {"collate", "done"} => P <= partition

CleanInv == ~stderr => Handed /\ Nodes /\ Reducing

BaseInv == TypeInv /\ PhaseInv /\ ClaimInv /\ MergeInv /\ PartitionInv /\ RowsInv

LEMMA BaseInit == Init => BaseInv
BY TypeInit, ClaimInit, MergeInit, ReduceInit DEF BaseInv

LEMMA BaseNext == BaseInv /\ [Next]_vars => BaseInv'
<1>. SUFFICES ASSUME BaseInv, [Next]_vars PROVE BaseInv'
  OBVIOUS
<1>1. TypeInv' /\ PhaseInv' /\ ClaimInv'
  BY TypeNext, PhaseNext, ClaimNext DEF BaseInv
<1>2. MergeInv'
  BY MergeRegionNext, EmptyKnownNext, UnclaimedNext, InProgressNext, SettledNext
     DEF BaseInv, MergeInv
<1>3. PartitionInv' /\ RowsInv'
  BY PartitionNext, RowsNext DEF BaseInv
<1>. QED
  BY <1>1, <1>2, <1>3 DEF BaseInv

--------------------------------------------------------------------------------
(* What the actions do to the store. *)

LEMMA InListAbsent == \A k \in Keys : InList(Absent, k) = 0
BY DEF InList

(* Six actions of the threads change the store or a reducer's map. *)
MapStores(w) == SwapIn(w) \/ InsertInto(w) \/ InsertThrows(w)
ReduceStores(w) == SwapOut(w) \/ ReduceKey(w) \/ ReduceThrows(w)

LEMMA StoreSteps ==
  [Next]_vars =>
    \/ \E w \in Workers : MapStores(w) \/ ReduceStores(w)
    \/ /\ store' = store /\ rows' = rows /\ taken' = taken
       /\ phase' \in {"map", "intermediate"} => phase \in {"map", "intermediate"}
<1>. DEFINE Frame ==
       /\ store' = store /\ rows' = rows /\ taken' = taken
       /\ phase' \in {"map", "intermediate"} => phase \in {"map", "intermediate"}
<1>. SUFFICES ASSUME [Next]_vars, \A w \in Workers : ~MapStores(w) /\ ~ReduceStores(w)
              PROVE  Frame
  OBVIOUS
<1>. USE DEF keyVars, mergeVars, reduceVars, mainVars
<1>1. ASSUME NEW w \in Workers, MapStep(w)
      PROVE  Frame
  BY <1>1 DEF MapStores, MapStep, LockKeys, NewKeyThrows, ReadSequence, SetupKey, RunMapTask,
       MapTaskThrows, LockStore, TestEmpty, FinishMerge, RecordMapTime, MapTimesThrows
<1>2. ASSUME NEW w \in Workers, ReduceStep(w)
      PROVE  Frame
  BY <1>2 DEF ReduceStores, ReduceStep, LockPartition, ReadPartition, IncrPartition,
       FinishPartition, RecordReduceTime, ReduceTimesThrows
<1>3. CASE MainStep
  BY <1>3 DEF MainStep, JoinMapThreads, StartShuffle, NextRound, JoinShuffleThreads,
       JoinReduceThreads, Collate, Return, InnerLoopEnded
<1>4. CASE UNCHANGED vars
  BY <1>4 DEF vars
<1>. QED
  BY <1>1, <1>2, <1>3, <1>4 DEF Next, Terminated

(* A merge that fails has copied no more of its key than was emitted. *)
LEMMA MergeFails ==
  ASSUME TypeInv, NEW w \in Workers, InsertThrows(w), NEW r \in RKeys,
         InList(store[r], key[w]) <= Emit[key[w]][r],
         Part[r] = part[w] => InList(store[r], key[w]) = 0
  PROVE  InList(store'[r], key[w]) <= Emit[key[w]][r]
<1>. USE DEF TypeInv, TypeOK, HoldsKey
<1>1. key[w] \in Keys
  <2>1. InsertThrows(w)
    OBVIOUS
  <2>. QED
    BY <2>1 DEF InsertThrows, Keys
<1>2. PICK q \in RKeys :
        /\ Part[q] = part[w] /\ Emit[key[w]][q] > 0
        /\ \E node \in {store[q]} \cup
             {Append(store[q], Copies(key[w], n)) : n \in 0 .. Emit[key[w]][q] - 1} :
             store' = [p \in RKeys |->
                         CASE p = q -> node
                           [] p < q /\ Part[p] = part[w] /\ Emit[key[w]][p] > 0 ->
                                Append(store[p], Emitted(key[w])[p])
                           [] OTHER -> store[p]]
  BY DEF InsertThrows
<1>3. CASE r = q
  <2>1. ASSUME NEW n \in 0 .. Emit[key[w]][q] - 1
        PROVE  InList(Append(store[q], Copies(key[w], n)), key[w]) <= Emit[key[w]][q]
    <3>1. Emit[key[w]][q] \in Nat
      BY <1>1
    <3>2. n \in Nat /\ n <= Emit[key[w]][q]
      BY <3>1
    <3>3. Copies(key[w], n) \in Bags /\ Copies(key[w], n)[key[w]] = n
      BY <1>1, <3>2, CopiesType DEF Copies
    <3>4. store[q] \in MaybeBag
      OBVIOUS
    <3>5. InList(Append(store[q], Copies(key[w], n)), key[w])
            = InList(store[q], key[w]) + Copies(key[w], n)[key[w]]
      BY <1>1, <3>3, <3>4, InListAppend
    <3>. QED
      BY <1>2, <1>3, <3>2, <3>3, <3>5
  <2>2. PICK node \in {store[q]} \cup
             {Append(store[q], Copies(key[w], n)) : n \in 0 .. Emit[key[w]][q] - 1} :
             store'[q] = node
    BY <1>2
  <2>3. CASE node = store[q]
    BY <1>3, <2>2, <2>3
  <2>4. CASE node # store[q]
    <3>1. PICK n \in 0 .. Emit[key[w]][q] - 1 : node = Append(store[q], Copies(key[w], n))
      BY <2>2, <2>4
    <3>. QED
      BY <1>3, <2>1, <2>2, <3>1
  <2>. QED
    BY <2>3, <2>4
<1>4. CASE r # q
  <2>1. CASE Part[r] = part[w] /\ Emit[key[w]][r] > 0
    <3>1. Emitted(key[w])[r] \in Bags /\ Emitted(key[w])[r][key[w]] = Emit[key[w]][r]
      BY <1>1, <2>1, EmittedList
    <3>2. store[r] \in MaybeBag /\ Emit[key[w]][r] \in Nat
      BY <1>1
    <3>3. InList(Append(store[r], Emitted(key[w])[r]), key[w])
            = InList(store[r], key[w]) + Emitted(key[w])[r][key[w]]
      BY <1>1, <3>1, <3>2, InListAppend
    <3>4. store'[r] \in {store[r], Append(store[r], Emitted(key[w])[r])}
      BY <1>2, <1>4
    <3>. QED
      BY <2>1, <3>1, <3>2, <3>3, <3>4
  <2>2. CASE ~(Part[r] = part[w] /\ Emit[key[w]][r] > 0)
    <3>1. store'[r] = store[r]
      BY <1>2, <1>4, <2>2
    <3>. QED
      BY <3>1
  <2>. QED
    BY <2>1, <2>2
<1>. QED
  BY <1>3, <1>4

(* The map phase changes no reducer's map, and every one of them is empty. *)
LEMMA MapStoresFrame ==
  ASSUME BaseInv, NEW w \in Workers, MapStores(w)
  PROVE  /\ phase = "map" /\ phase' = phase /\ taken' = taken /\ rows' = rows /\ HoldsKey(w)
         /\ key[w] \in Keys /\ Merging(w)
         /\ \A v \in Workers, r \in RKeys : taken[v][r] = Absent
<1>1. MapStores(w)
  OBVIOUS
<1>2. pc[w] \in {"swap", "insert"} /\ phase' = phase /\ taken' = taken /\ rows' = rows
  BY <1>1 DEF MapStores, SwapIn, InsertInto, InsertThrows, reduceVars, mainVars
<1>3. phase = "map" /\ HoldsKey(w) /\ Merging(w)
  BY <1>2 DEF BaseInv, PhaseInv, MapLabels, HoldsKey, Merging
<1>4. key[w] \in Keys
  BY <1>3 DEF BaseInv, TypeInv, TypeOK, Keys
<1>. QED
  BY <1>2, <1>3, <1>4 DEF BaseInv, PhaseInv, RowsInv, ReduceLabels

LEMMA BoundInit == Init => BoundInv
BY DEF Init, BoundInv, InList, EmptyMap

LEMMA BoundNext == BaseInv /\ BoundInv /\ [Next]_vars => BoundInv'
<1>. SUFFICES ASSUME BaseInv, BoundInv, [Next]_vars PROVE BoundInv'
  OBVIOUS
<1>1. ASSUME NEW w \in Workers, MapStores(w)
      PROVE  BoundInv'
  <2>1. /\ phase = "map" /\ HoldsKey(w) /\ key[w] \in Keys /\ taken' = taken
        /\ \A v \in Workers, r \in RKeys : taken[v][r] = Absent
    BY <1>1, MapStoresFrame
  <2>2. TypeInv /\ EmptyKnown /\ InProgress
    BY DEF BaseInv, MergeInv
  <2>3. ASSUME NEW r \in RKeys
        PROVE  InList(store'[r], key[w]) <= Emit[key[w]][r]
    <3>1. /\ InList(store[r], key[w]) \in Nat /\ Emit[key[w]][r] \in Nat
          /\ InList(store[r], key[w]) <= Emit[key[w]][r]
      BY <2>1, <2>2, InListType DEF BoundInv, TypeInv, TypeOK
    <3>2. Part[r] = part[w] => InList(store[r], key[w]) = 0
      BY <2>1, <2>2 DEF InProgress, Partitions, TypeInv, TypeOK
    <3>3. CASE InsertThrows(w)
      BY <2>2, <3>1, <3>2, <3>3, MergeFails
    <3>4. CASE SwapIn(w) \/ InsertInto(w)
      <4>1. InList(store'[r], key[w]) =
              IF Part[r] = part[w] THEN InList(store[r], key[w]) + Emit[key[w]][r]
              ELSE InList(store[r], key[w])
        BY <2>2, <3>4, MergeAdds
      <4>. QED
        BY <3>1, <3>2, <4>1
    <3>. QED
      BY <1>1, <3>3, <3>4 DEF MapStores
  <2>4. ASSUME NEW r \in RKeys, NEW k \in Keys, k # key[w]
        PROVE  InList(store'[r], k) = InList(store[r], k)
    BY <1>1, <2>2, <2>4, MergeFrame DEF MapStores
  <2>. QED
    BY <2>1, <2>3, <2>4, InListAbsent DEF BoundInv
<1>2. ASSUME NEW w \in Workers, SwapOut(w)
      PROVE  BoundInv'
  <2>1. \A r \in RKeys : store'[r] \in {store[r], Absent} /\ taken'[w][r] \in {store[r], Absent}
    BY <1>2 DEF SwapOut, MapOf, BaseInv, TypeInv, TypeOK
  <2>2. \A v \in Workers \ {w} : taken'[v] = taken[v]
    BY <1>2 DEF SwapOut, BaseInv, TypeInv, TypeOK
  <2>3. \A r \in RKeys : taken'[w][r] # Absent => store'[r] = Absent
    BY <1>2 DEF SwapOut, MapOf, BaseInv, TypeInv, TypeOK
  <2>4. \A r \in RKeys, k \in Keys : Emit[k][r] \in Nat /\ 0 <= Emit[k][r]
    OBVIOUS
  <2>5. \A r \in RKeys, k \in Keys :
          InList(store'[r], k) <= Emit[k][r] /\ InList(taken'[w][r], k) <= Emit[k][r]
    BY <2>1, <2>4, InListAbsent DEF BoundInv
  <2>. QED
    BY <2>1, <2>2, <2>3, <2>5 DEF BoundInv
<1>3. ASSUME NEW w \in Workers, ReduceKey(w)
      PROVE  BoundInv'
  <2>1. PICK r \in RKeys : /\ taken[w][r] # Absent
                         /\ store' = [store EXCEPT ![r] = Append(@, taken[w][r])]
                         /\ taken' = [taken EXCEPT ![w][r] = Absent]
    BY <1>3 DEF ReduceKey, IsNext, Todo
  <2>2. store[r] = Absent
    BY <2>1 DEF BoundInv
  <2>3. store'[r] = taken[w][r] /\ \A q \in RKeys \ {r} : store'[q] = store[q]
    BY <2>1, <2>2 DEF Append, BaseInv, TypeInv, TypeOK
  <2>4. \A v \in Workers, q \in RKeys : taken'[v][q] \in {taken[v][q], Absent}
    BY <2>1 DEF BaseInv, TypeInv, TypeOK
  <2>5. \A v \in Workers : taken'[v][r] = Absent
    <3>1. ASSUME NEW v \in Workers, v # w PROVE taken[v][r] = Absent
      BY <2>1, <3>1 DEF BaseInv, RowsInv, PartitionInv, HoldsPartition
    <3>. QED
      BY <2>1, <3>1 DEF BaseInv, TypeInv, TypeOK
  <2>6. \A q \in RKeys, k \in Keys : Emit[k][q] \in Nat /\ 0 <= Emit[k][q]
    OBVIOUS
  <2>7. \A q \in RKeys, k \in Keys : InList(store'[q], k) <= Emit[k][q]
    BY <2>3 DEF BoundInv
  <2>8. \A v \in Workers, q \in RKeys, k \in Keys : InList(taken'[v][q], k) <= Emit[k][q]
    BY <2>4, <2>6, InListAbsent DEF BoundInv
  <2>9. \A v \in Workers, q \in RKeys : taken'[v][q] # Absent => store'[q] = Absent
    BY <2>3, <2>4, <2>5 DEF BoundInv
  <2>. QED
    BY <2>7, <2>8, <2>9 DEF BoundInv
<1>4. ASSUME NEW w \in Workers, ReduceThrows(w)
      PROVE  BoundInv'
  <2>1. PICK r \in RKeys : /\ taken[w][r] # Absent
                         /\ store' \in {store, [store EXCEPT ![r] = Append(@, EmptyList)]}
    BY <1>4 DEF ReduceThrows, IsNext, Todo
  <2>2. \A q \in RKeys : taken'[w][q] = Absent
    BY <1>4 DEF ReduceThrows, EmptyMap, BaseInv, TypeInv, TypeOK
  <2>3. \A v \in Workers \ {w} : taken'[v] = taken[v]
    BY <1>4 DEF ReduceThrows, BaseInv, TypeInv, TypeOK
  <2>4. store[r] = Absent
    BY <2>1 DEF BoundInv
  <2>5. store'[r] \in {Absent, EmptyList} /\ \A q \in RKeys \ {r} : store'[q] = store[q]
    BY <2>1, <2>4 DEF Append, BaseInv, TypeInv, TypeOK
  <2>6. ASSUME NEW v \in Workers, v # w PROVE taken[v][r] = Absent
    BY <2>1, <2>6 DEF BaseInv, RowsInv, PartitionInv, HoldsPartition
  <2>7. \A q \in RKeys, k \in Keys : Emit[k][q] \in Nat /\ 0 <= Emit[k][q]
    OBVIOUS
  <2>8. \A k \in Keys : InList(EmptyList, k) = 0
    BY DEF InList, EmptyList
  <2>9. \A q \in RKeys, k \in Keys : InList(store'[q], k) <= Emit[k][q]
    BY <2>5, <2>7, <2>8, InListAbsent, ZenonT(30) DEF BoundInv
  <2>10. \A v \in Workers, q \in RKeys, k \in Keys : InList(taken'[v][q], k) <= Emit[k][q]
    BY <2>2, <2>3, <2>7, InListAbsent DEF BoundInv
  <2>11. \A v \in Workers, q \in RKeys : taken'[v][q] # Absent => store'[q] = Absent
    BY <2>2, <2>3, <2>5, <2>6 DEF BoundInv
  <2>. QED
    BY <2>9, <2>10, <2>11 DEF BoundInv
<1>5. CASE store' = store /\ taken' = taken
  BY <1>5 DEF BoundInv
<1>. QED
  BY <1>1, <1>2, <1>3, <1>4, <1>5, StoreSteps DEF ReduceStores

--------------------------------------------------------------------------------
(* What holds until something is reported. *)

(* Each step that loses something reports it. *)
LEMMA QuietSteps ==
  ASSUME [Next]_vars, ~stderr', NEW w \in Workers
  PROVE  /\ ~NewKeyThrows(w) /\ ~MapTaskThrows(w) /\ ~InsertThrows(w) /\ ~MapTimesThrows(w)
         /\ ~ReduceThrows(w) /\ ~ReduceTimesThrows(w)
BY DEF NewKeyThrows, MapTaskThrows, InsertThrows, MapTimesThrows, ReduceThrows, ReduceTimesThrows

LEMMA HandedInit == Init => Handed
BY DEF Init, Handed, Keys

LEMMA HandedNext == BaseInv /\ Handed /\ [Next]_vars /\ ~stderr' => Handed'
<1>. SUFFICES ASSUME BaseInv, Handed, [Next]_vars, ~stderr' PROVE Handed'
  OBVIOUS
<1>. USE DEF BaseInv, TypeInv, TypeOK, Handed, HoldsKey, Goto,
             keyVars, mergeVars, reduceVars, mainVars
<1>1. ASSUME NEW w \in Workers,
             \/ LockKeys(w) \/ ReadSequence(w) \/ RunMapTask(w) \/ LockStore(w)
             \/ TestEmpty(w) \/ SwapIn(w) \/ InsertInto(w) \/ RecordMapTime(w)
      PROVE  Handed'
  <2>1. /\ phase' = phase /\ sequence' = sequence /\ merged' = merged
        /\ pc'[w] \notin {"crashed", "exited"} /\ HoldsKey(w)' = HoldsKey(w)
        /\ HoldsKey(w) => key'[w] = key[w]
    BY <1>1 DEF LockKeys, ReadSequence, RunMapTask, LockStore, TestEmpty, SwapIn, InsertInto,
         RecordMapTime
  <2>2. \A v \in Workers \ {w} : pc'[v] = pc[v] /\ key'[v] = key[v]
    BY <1>1 DEF LockKeys, ReadSequence, RunMapTask, LockStore, TestEmpty, SwapIn, InsertInto,
         RecordMapTime
  <2>. QED
    BY <2>1, <2>2, ZenonT(30)
<1>2. ASSUME NEW w \in Workers, SetupKey(w)
      PROVE  Handed'
  <2>1. /\ phase' = phase /\ key' = key /\ merged' = merged /\ pc[w] = "setup_key"
        /\ key[w] = sequence /\ sequence' = sequence + 1
        /\ pc'[w] = IF key[w] < N THEN "run_map" ELSE "exited"
        /\ \A v \in Workers \ {w} : pc'[v] = pc[v]
    BY <1>2 DEF SetupKey, ClaimInv
  <2>2. ASSUME NEW v \in Workers, pc'[v] = "exited", phase = "map"
        PROVE  N <= sequence'
    <3>1. CASE v = w
      BY <2>1, <2>2, <3>1
    <3>2. CASE v # w
      BY <2>1, <2>2, <3>2
    <3>. QED
      BY <3>1, <3>2
  <2>3. ASSUME NEW k \in Keys, k < sequence', phase = "map"
        PROVE  k \in merged' \/ \E v \in Workers : HoldsKey(v)' /\ key'[v] = k
    <3>1. CASE k = sequence
      BY <2>1, <3>1 DEF Keys
    <3>2. CASE k # sequence
      <4>1. k < sequence
        BY <2>1, <2>3, <3>2 DEF Keys
      <4>. QED
        BY <2>1, <2>3, <4>1
    <3>. QED
      BY <3>1, <3>2
  <2>. QED
    BY <2>1, <2>2, <2>3
<1>3. ASSUME NEW w \in Workers, FinishMerge(w)
      PROVE  Handed'
  <2>1. /\ phase' = phase /\ key' = key /\ sequence' = sequence /\ merged' = merged \cup {key[w]}
        /\ pc[w] = "merge" /\ pc'[w] = "map_times"
        /\ \A v \in Workers \ {w} : pc'[v] = pc[v]
    BY <1>3 DEF FinishMerge
  <2>2. phase = "map"
    BY <2>1 DEF PhaseInv, MapLabels
  <2>3. ASSUME NEW k \in Keys, k < sequence'
        PROVE  k \in merged' \/ \E v \in Workers : HoldsKey(v)' /\ key'[v] = k
    <3>1. CASE k \in merged'
      BY <3>1
    <3>2. CASE k \notin merged'
      <4>1. PICK v \in Workers : HoldsKey(v) /\ key[v] = k
        BY <2>1, <2>2, <2>3, <3>2
      <4>2. v # w
        BY <2>1, <3>2, <4>1
      <4>. QED
        BY <2>1, <4>1, <4>2
    <3>. QED
      BY <3>1, <3>2
  <2>4. \A v \in Workers : pc'[v] = "exited" => pc[v] = "exited"
    BY <2>1
  <2>5. \A v \in Workers : pc'[v] # "crashed"
    BY <2>1
  <2>. QED
    BY <2>1, <2>2, <2>3, <2>4, <2>5
<1>4. ASSUME NEW w \in Workers, ReduceStep(w)
      PROVE  Handed'
  <2>1. /\ phase' = phase /\ merged' = merged /\ pc[w] \in ReduceLabels
        /\ \A v \in Workers \ {w} : pc'[v] = pc[v]
    BY <1>4 DEF ReduceStep, LockPartition, ReadPartition, IncrPartition, SwapOut, ReduceKey,
         ReduceThrows, FinishPartition, RecordReduceTime, ReduceTimesThrows, ReduceLabels
  <2>2. pc'[w] # "crashed"
    BY <1>4, QuietSteps DEF ReduceStep, LockPartition, ReadPartition, IncrPartition, SwapOut,
         ReduceKey, FinishPartition, RecordReduceTime
  <2>3. phase = "reduce"
    BY <2>1 DEF PhaseInv
  <2>. QED
    BY <2>1, <2>2, <2>3
<1>5. CASE JoinMapThreads
  <2>1. /\ phase = "map" /\ phase' = "intermediate" /\ pc' = pc /\ merged' = merged
        /\ \A w \in Workers : pc[w] = "exited"
    BY <1>5 DEF JoinMapThreads, Ended
  <2>2. N <= sequence
    <3>1. 1 \in Workers
      BY DEF Workers
    <3>. QED
      BY <2>1, <3>1
  <2>3. \A k \in Keys : k < sequence
    BY <2>2 DEF Keys
  <2>4. merged = Keys
    BY <2>1, <2>3
  <2>. QED
    BY <2>1, <2>4
<1>6. CASE StartShuffle \/ NextRound \/ JoinReduceThreads \/ Collate \/ Return
  BY <1>6 DEF StartShuffle, NextRound, JoinReduceThreads, Collate, Return, InnerLoopEnded
<1>7. CASE JoinShuffleThreads
  BY <1>7 DEF JoinShuffleThreads, InnerLoopEnded
<1>8. CASE UNCHANGED vars
  BY <1>8 DEF vars
<1>. QED
  BY <1>1, <1>2, <1>3, <1>4, <1>5, <1>6, <1>7, <1>8, QuietSteps
     DEF Next, MapStep, MainStep, Terminated

LEMMA NodesInit == Init => Nodes
BY DEF Init, Nodes, EmptyMap

LEMMA NodesNext == BaseInv /\ Nodes /\ [Next]_vars /\ ~stderr' => Nodes'
<1>. SUFFICES ASSUME BaseInv, Nodes, [Next]_vars, ~stderr' PROVE Nodes'
  OBVIOUS
<1>1. ASSUME NEW w \in Workers, SwapIn(w)
      PROVE  Nodes'
  <2>1. phase = "map" /\ key[w] \in Keys
    BY <1>1, MapStoresFrame DEF MapStores
  <2>2. ASSUME NEW r \in RKeys, Part[r] = part[w], store'[r] # Absent
        PROVE  InList(store'[r], key[w]) > 0
    <3>1. store'[r] = Emitted(key[w])[r]
      BY <1>1, <2>2 DEF SwapIn
    <3>2. Emit[key[w]][r] # 0
      BY <2>2, <3>1 DEF Emitted
    <3>3. InList(store'[r], key[w]) = Emit[key[w]][r]
      BY <2>1, <3>1, InListEmitted
    <3>. QED
      BY <2>1, <3>2, <3>3
  <2>3. \A r \in RKeys : Part[r] # part[w] => store'[r] = store[r]
    BY <1>1 DEF SwapIn
  <2>. QED
    BY <2>1, <2>2, <2>3 DEF Nodes
<1>2. ASSUME NEW w \in Workers, InsertInto(w)
      PROVE  Nodes'
  <2>1. phase = "map" /\ key[w] \in Keys
    BY <1>2, MapStoresFrame DEF MapStores
  <2>2. ASSUME NEW r \in RKeys, Part[r] = part[w], Emit[key[w]][r] > 0
        PROVE  InList(store'[r], key[w]) > 0
    <3>1. TypeInv /\ EmptyKnown
      BY DEF BaseInv, MergeInv
    <3>2. InList(store'[r], key[w]) = InList(store[r], key[w]) + Emit[key[w]][r]
      BY <1>2, <2>2, <3>1, MergeAdds
    <3>3. InList(store[r], key[w]) \in Nat /\ Emit[key[w]][r] \in Nat
      BY <2>1, <3>1, InListType DEF TypeInv, TypeOK
    <3>. QED
      BY <2>2, <3>2, <3>3
  <2>3. \A r \in RKeys : ~(Part[r] = part[w] /\ Emit[key[w]][r] > 0) => store'[r] = store[r]
    BY <1>2 DEF InsertInto
  <2>. QED
    BY <2>1, <2>2, <2>3 DEF Nodes
<1>3. ASSUME NEW w \in Workers, ReduceStores(w)
      PROVE  Nodes'
  <2>1. phase' = "reduce"
    BY <1>3 DEF ReduceStores, SwapOut, ReduceKey, ReduceThrows, mainVars,
         BaseInv, PhaseInv, ReduceLabels
  <2>. QED
    BY <2>1 DEF Nodes
<1>4. CASE store' = store /\ (phase' \in {"map", "intermediate"} => phase \in {"map", "intermediate"})
  BY <1>4 DEF Nodes
<1>. QED
  BY <1>1, <1>2, <1>3, <1>4, StoreSteps, QuietSteps DEF MapStores

(* Before the reducers start, the store holds the whole list of every key. *)
LEMMA FullStore ==
  ASSUME BaseInv, Handed, Nodes, phase = "intermediate", NEW r \in RKeys
  PROVE  store[r] = FullList(r)
<1>1. \A k \in Keys : InList(store[r], k) = Emit[k][r]
  BY DEF BaseInv, MergeInv, Settled, Handed
<1>2. CASE \A k \in Keys : Emit[k][r] = 0
  BY <1>1, <1>2 DEF Nodes, FullList
<1>3. ASSUME NEW j \in Keys, Emit[j][r] # 0
      PROVE  store[r] = FullList(r)
  <2>1. store[r] # Absent
    BY <1>1, <1>3 DEF InList
  <2>2. store[r] \in [Keys -> Nat]
    BY <2>1 DEF BaseInv, TypeInv, TypeOK, MaybeBag, Bags
  <2>3. \A k \in Keys : store[r][k] = Emit[k][r]
    BY <1>1, <2>1 DEF InList
  <2>4. FullList(r) = [k \in Keys |-> Emit[k][r]]
    BY <1>3 DEF FullList
  <2>. QED
    BY <2>2, <2>3, <2>4
<1>. QED
  BY <1>2, <1>3

LEMMA StepsUpTo == \A a, b \in Nat : a <= b /\ b # a => a + 1 <= b
OBVIOUS

LEMMA ReducingInit == Init => Reducing
BY DEF Init, Reducing

LEMMA ReducingNext ==
  BaseInv /\ BoundInv /\ Handed /\ Nodes /\ Reducing /\ [Next]_vars /\ ~stderr' => Reducing'
<1>. SUFFICES ASSUME BaseInv, BoundInv, Handed, Nodes, Reducing, [Next]_vars, ~stderr'
              PROVE  Reducing'
  OBVIOUS
<1>. USE DEF BaseInv, TypeInv, TypeOK, Goto, keyVars, mergeVars, reduceVars, mainVars
<1>1. ASSUME NEW w \in Workers, MapStep(w)
      PROVE  Reducing'
  <2>1. pc[w] \in MapLabels /\ phase' = phase
    BY <1>1 DEF MapLabels, MapStep, LockKeys, NewKeyThrows, ReadSequence, SetupKey, RunMapTask,
         MapTaskThrows, LockStore, TestEmpty, SwapIn, InsertInto, InsertThrows, FinishMerge,
         RecordMapTime, MapTimesThrows
  <2>2. phase' = "map"
    BY <2>1 DEF PhaseInv
  <2>. QED
    BY <2>2 DEF Reducing
<1>2. CASE JoinMapThreads \/ StartShuffle \/ NextRound
  <2>1. phase' = "intermediate"
    BY <1>2 DEF JoinMapThreads, StartShuffle, NextRound, InnerLoopEnded
  <2>. QED
    BY <2>1 DEF Reducing
<1>3. CASE JoinShuffleThreads
  <2>1. /\ phase = "intermediate" /\ phase' = "reduce" /\ partition' = 0
        /\ store' = store /\ rows' = rows /\ taken' = taken
        /\ \A w \in Reducers : pc'[w] # "exited"
    BY <1>3 DEF JoinShuffleThreads, InnerLoopEnded, Reducers, Workers
  <2>2. ASSUME NEW r \in RKeys
        PROVE  Waiting(r)'
    <3>1. store[r] = FullList(r)
      BY <2>1, FullStore
    <3>2. rows[r] = 0 /\ \A w \in Workers : taken[w][r] = Absent
      BY <2>1 DEF RowsInv, PhaseInv, ReduceLabels
    <3>3. partition' <= Part[r]
      BY <2>1 DEF Partitions
    <3>. QED
      BY <2>1, <3>1, <3>2, <3>3 DEF Waiting, FullList
  <2>. QED
    BY <2>1, <2>2 DEF Reducing
<1>4. ASSUME NEW w \in Workers,
             LockPartition(w) \/ ReadPartition(w) \/ FinishPartition(w) \/ RecordReduceTime(w)
      PROVE  Reducing'
  <2>1. /\ phase' = phase /\ store' = store /\ rows' = rows /\ taken' = taken
        /\ partition' = partition /\ pc[w] # "swap_out" /\ pc'[w] # "exited"
        /\ \A v \in Workers \ {w} : pc'[v] = pc[v] /\ part'[v] = part[v]
    BY <1>4 DEF LockPartition, ReadPartition, FinishPartition, RecordReduceTime
  <2>2. ASSUME NEW r \in RKeys
        PROVE  /\ Waiting(r) => Waiting(r)'
               /\ Taken(r) => Taken(r)'
               /\ Reduced(r) => Reduced(r)'
    BY <2>1 DEF Waiting, Taken, Reduced, FullList
  <2>3. /\ \A v \in Workers : pc'[v] = "exited" => pc[v] = "exited"
        /\ Reducers \subseteq Workers
    BY <2>1 DEF Reducers, Workers
  <2>. QED
    BY <2>1, <2>2, <2>3 DEF Reducing
<1>5. ASSUME NEW w \in Workers, IncrPartition(w)
      PROVE  Reducing'
  <2>1. /\ phase' = phase /\ store' = store /\ rows' = rows /\ taken' = taken /\ part' = part
        /\ part[w] = partition /\ partition' = partition + 1 /\ pc[w] = "incr_partition"
        /\ pc'[w] = IF part[w] < P THEN "swap_out" ELSE "exited"
        /\ \A v \in Workers \ {w} : pc'[v] = pc[v]
    BY <1>5 DEF IncrPartition, PartitionInv
  <2>2. phase = "reduce"
    BY <2>1 DEF PhaseInv, ReduceLabels
  <2>3. ASSUME NEW r \in RKeys, Waiting(r)
        PROVE  Waiting(r)'
    <3>1. Part[r] \in Nat /\ Part[r] < P
      BY DEF Partitions
    <3>2. CASE FullList(r) = Absent
      BY <2>1, <2>3, <3>2 DEF Waiting, FullList
    <3>3. CASE Part[r] = partition
      BY <2>1, <2>3, <3>1, <3>3 DEF Waiting, FullList
    <3>4. CASE partition <= Part[r] /\ Part[r] # partition
      <4>1. partition \in Nat
        OBVIOUS
      <4>2. partition' <= Part[r]
        BY <2>1, <3>1, <3>4, <4>1, StepsUpTo
      <4>. QED
        BY <2>1, <2>3, <4>2 DEF Waiting, FullList
    <3>5. ASSUME NEW v \in Workers, pc[v] = "swap_out", part[v] = Part[r]
          PROVE  Waiting(r)'
      <4>1. pc'[v] = "swap_out" /\ part'[v] = Part[r]
        BY <2>1, <3>5
      <4>. QED
        BY <2>1, <2>3, <4>1 DEF Waiting, FullList
    <3>. QED
      BY <2>3, <3>2, <3>3, <3>4, <3>5 DEF Waiting
  <2>4. ASSUME NEW r \in RKeys
        PROVE  (Taken(r) => Taken(r)') /\ (Reduced(r) => Reduced(r)')
    BY <2>1 DEF Taken, Reduced, FullList
  <2>5. ASSUME NEW v \in Reducers, pc'[v] = "exited"
        PROVE  P <= partition'
    <3>1. v \in Workers
      BY DEF Reducers, Workers
    <3>2. CASE v = w
      BY <2>1, <2>5, <3>2
    <3>3. CASE v # w
      BY <2>1, <2>2, <2>5, <3>1, <3>3 DEF Reducing
    <3>. QED
      BY <3>2, <3>3
  <2>. QED
    BY <2>1, <2>2, <2>3, <2>4, <2>5 DEF Reducing
<1>6. ASSUME NEW w \in Workers, SwapOut(w)
      PROVE  Reducing'
  <2>1. /\ phase' = phase /\ rows' = rows /\ part' = part /\ partition' = partition
        /\ pc[w] = "swap_out" /\ pc'[w] = "reduce"
        /\ \A v \in Workers \ {w} : pc'[v] = pc[v] /\ taken'[v] = taken[v]
        /\ \A r \in RKeys :
             /\ taken'[w][r] = IF Part[r] = part[w] THEN store[r] ELSE Absent
             /\ store'[r] = IF Part[r] = part[w] THEN Absent ELSE store[r]
    BY <1>6 DEF SwapOut, MapOf
  <2>2. phase = "reduce"
    BY <2>1 DEF PhaseInv, ReduceLabels
  <2>3. ASSUME NEW r \in RKeys, Part[r] = part[w]
        PROVE  Waiting(r)' \/ Taken(r)'
    <3>1. \A v \in Workers : taken[v][r] = Absent
      BY <2>1, <2>3 DEF RowsInv, PartitionInv, HoldsPartition
    <3>2. rows[r] = 0
      BY <2>1, <2>3 DEF RowsInv
    <3>3. Waiting(r)
      BY <2>2, <3>1, <3>2 DEF Reducing, Taken, Reduced
    <3>4. CASE FullList(r) = Absent
      BY <2>1, <2>3, <3>1, <3>3, <3>4 DEF Waiting, FullList
    <3>5. CASE FullList(r) # Absent
      BY <2>1, <2>3, <3>3, <3>5 DEF Waiting, Taken, FullList
    <3>. QED
      BY <3>4, <3>5
  <2>4. ASSUME NEW r \in RKeys, Part[r] # part[w]
        PROVE  Waiting(r)' \/ Taken(r)' \/ Reduced(r)'
    <3>1. CASE Waiting(r)
      <4>1. \A v \in Workers : taken'[v][r] = Absent
        BY <2>1, <2>4, <3>1 DEF Waiting
      <4>. QED
        BY <2>1, <2>4, <3>1, <4>1 DEF Waiting, FullList
    <3>2. CASE Taken(r)
      <4>1. PICK v \in Workers : taken[v][r] = FullList(r)
        BY <3>2 DEF Taken
      <4>2. v # w
        BY <2>1, <3>2, <4>1 DEF Taken, RowsInv
      <4>. QED
        BY <2>1, <2>4, <3>2, <4>1, <4>2 DEF Taken, FullList
    <3>3. CASE Reduced(r)
      BY <2>1, <2>4, <3>3 DEF Reduced, FullList
    <3>. QED
      BY <2>2, <3>1, <3>2, <3>3 DEF Reducing
  <2>5. \A v \in Workers : pc'[v] = "exited" => pc[v] = "exited"
    BY <2>1
  <2>6. Reducers \subseteq Workers
    BY DEF Reducers, Workers
  <2>. QED
    BY <2>1, <2>2, <2>3, <2>4, <2>5, <2>6 DEF Reducing
<1>7. ASSUME NEW w \in Workers, ReduceKey(w)
      PROVE  Reducing'
  <2>1. PICK r \in RKeys : /\ taken[w][r] # Absent
                         /\ store' = [store EXCEPT ![r] = Append(@, taken[w][r])]
                         /\ rows' = [rows EXCEPT ![r] = @ + 1]
                         /\ taken' = [taken EXCEPT ![w][r] = Absent]
    BY <1>7 DEF ReduceKey, IsNext, Todo
  <2>2. /\ phase' = phase /\ partition' = partition /\ pc' = pc /\ part' = part
        /\ pc[w] = "reduce"
    BY <1>7 DEF ReduceKey
  <2>3. phase = "reduce"
    BY <2>2 DEF PhaseInv, ReduceLabels
  <2>4. Taken(r)
    BY <2>1, <2>3 DEF Reducing, Waiting, Reduced, RowsInv
  <2>5. ASSUME NEW v \in Workers, v # w
        PROVE  taken[v][r] = Absent
    BY <2>1, <2>5 DEF RowsInv, PartitionInv, HoldsPartition
  <2>6. taken[w][r] = FullList(r) /\ FullList(r) # Absent
    BY <2>4, <2>5 DEF Taken
  <2>7. store'[r] = FullList(r) /\ rows'[r] = 1
    BY <2>1, <2>4, <2>6 DEF Append, Taken
  <2>8. Reduced(r)'
    BY <2>6, <2>7 DEF Reduced, FullList
  <2>9. ASSUME NEW q \in RKeys, q # r
        PROVE  Waiting(q)' \/ Taken(q)' \/ Reduced(q)'
    <3>1. /\ store'[q] = store[q] /\ rows'[q] = rows[q]
          /\ \A v \in Workers : taken'[v][q] = taken[v][q]
      BY <2>1, <2>9
    <3>. QED
      BY <2>2, <2>3, <3>1 DEF Reducing, Waiting, Taken, Reduced, FullList
  <2>. QED
    BY <2>2, <2>3, <2>8, <2>9 DEF Reducing
<1>8. CASE JoinReduceThreads
  <2>1. /\ phase = "reduce" /\ phase' = "collate" /\ partition' = partition /\ pc' = pc
        /\ part' = part /\ store' = store /\ rows' = rows /\ taken' = taken
        /\ \A w \in Workers : pc[w] = "exited"
    BY <1>8 DEF JoinReduceThreads, Ended, Handed
  <2>2. 1 \in Reducers /\ 1 \in Workers
    BY DEF Reducers, Workers
  <2>3. P <= partition
    BY <2>1, <2>2 DEF Reducing
  <2>. QED
    BY <2>1, <2>3 DEF Reducing, Waiting, Taken, Reduced, FullList
<1>9. CASE Collate \/ Return \/ UNCHANGED vars
  <2>1. /\ partition' = partition /\ pc' = pc /\ part' = part
        /\ store' = store /\ rows' = rows /\ taken' = taken
        /\ phase' = phase \/ (phase = "collate" /\ phase' = "done")
    BY <1>9 DEF Collate, Return, vars
  <2>. QED
    BY <2>1 DEF Reducing, Waiting, Taken, Reduced, FullList
<1>. QED
  BY <1>1, <1>2, <1>3, <1>4, <1>5, <1>6, <1>7, <1>8, <1>9, QuietSteps
     DEF Next, ReduceStep, MainStep, Terminated

LEMMA CleanInit == Init => CleanInv
BY HandedInit, NodesInit, ReducingInit DEF CleanInv

LEMMA ErrorsStay == BaseInv /\ [Next]_vars /\ stderr => stderr'
<1>. SUFFICES ASSUME BaseInv, [Next]_vars, stderr PROVE stderr'
  OBVIOUS
<1>1. ASSUME NEW w \in Workers, MapStep(w)
      PROVE  stderr'
  BY <1>1 DEF MapStep, LockKeys, NewKeyThrows, ReadSequence, SetupKey, RunMapTask,
       MapTaskThrows, LockStore, TestEmpty, SwapIn, InsertInto, InsertThrows, FinishMerge,
       RecordMapTime, MapTimesThrows
<1>2. ASSUME NEW w \in Workers, ReduceStep(w)
      PROVE  stderr'
  BY <1>2 DEF ReduceStep, LockPartition, ReadPartition, IncrPartition, SwapOut, ReduceKey,
       ReduceThrows, FinishPartition, RecordReduceTime, ReduceTimesThrows
<1>3. CASE MainStep
  BY <1>3 DEF MainStep, JoinMapThreads, StartShuffle, NextRound, JoinShuffleThreads,
       JoinReduceThreads, Collate, Return
<1>4. CASE UNCHANGED vars
  BY <1>4 DEF vars
<1>. QED
  BY <1>1, <1>2, <1>3, <1>4 DEF Next, Terminated

LEMMA CleanNext == BaseInv /\ BoundInv /\ CleanInv /\ [Next]_vars => CleanInv'
<1>. SUFFICES ASSUME BaseInv, BoundInv, CleanInv, [Next]_vars, ~stderr'
              PROVE  Handed' /\ Nodes' /\ Reducing'
  BY DEF CleanInv
<1>1. Handed /\ Nodes /\ Reducing
  BY ErrorsStay DEF CleanInv
<1>. QED
  BY <1>1, HandedNext, NodesNext, ReducingNext

--------------------------------------------------------------------------------
(* The refinement *)

(* A run without errors ends with the results it owes. *)
LEMMA CleanEnd ==
  ASSUME BaseInv, CleanInv, ~stderr, phase \in {"collate", "done"}
  PROVE  Complete
<1>. SUFFICES ASSUME NEW r \in RKeys
              PROVE  store[r] = FullList(r) /\ rows[r] = IF FullList(r) = Absent THEN 0 ELSE 1
  BY DEF Complete
<1>1. P <= partition /\ (Waiting(r) \/ Taken(r) \/ Reduced(r))
  BY DEF CleanInv, Reducing
<1>2. \A w \in Workers : pc[w] \notin ReduceLabels
  BY DEF BaseInv, PhaseInv
<1>3. ~Taken(r)
  BY <1>2 DEF Taken, BaseInv, RowsInv, ReduceLabels
<1>4. CASE Waiting(r)
  <2>1. ~(partition <= Part[r])
    BY <1>1 DEF Partitions, BaseInv, TypeInv, TypeOK
  <2>. QED
    BY <1>2, <1>4, <2>1 DEF Waiting, ReduceLabels
<1>. QED
  BY <1>1, <1>3, <1>4 DEF Reduced

(* The results never hold a value more often than it was emitted. *)
LEMMA ResultsWithin ==
  ASSUME TypeInv, BoundInv, NEW r \in RKeys
  PROVE  Contract!Within(Result(r), Owed(r))
<1>1. Owed(r).list = [k \in Keys |-> Emit[k][r]]
  <2>1. CASE \A k \in Keys : Emit[k][r] = 0
    BY <2>1 DEF Owed, FullList, EmptyList
  <2>2. CASE ~ \A k \in Keys : Emit[k][r] = 0
    <3>1. FullList(r) = [k \in Keys |-> Emit[k][r]]
      BY <2>2 DEF FullList
    <3>2. FullList(r) # Absent
      BY <3>1, AbsentAssumption DEF Bags
    <3>. QED
      BY <3>1, <3>2 DEF Owed
  <2>. QED
    BY <2>1, <2>2
<1>2. \A k \in Keys : Result(r).list[k] = InList(store[r], k)
  BY DEF Result, InList, EmptyList
<1>. QED
  BY <1>1, <1>2 DEF Contract!Within, BoundInv

LEMMA CompleteIsOwed ==
  ASSUME Complete
  PROVE  [r \in RKeys |-> Result(r)] = [r \in RKeys |-> Owed(r)]
BY DEF Complete, Result, Owed

(* A step before the last one leaves the output empty. *)
LEMMA EarlySteps ==
  ASSUME BaseInv, [Next]_vars
  PROVE  \/ UNCHANGED vars
         \/ Return
         \/ phase # "done" /\ phase' # "done"
<1>. USE DEF BaseInv, PhaseInv, MapLabels, ReduceLabels, keyVars, mergeVars, reduceVars, mainVars
<1>1. ASSUME NEW w \in Workers, MapStep(w)
      PROVE  phase # "done" /\ phase' # "done"
  <2>1. pc[w] \in MapLabels /\ phase' = phase
    BY <1>1 DEF MapStep, LockKeys, NewKeyThrows, ReadSequence, SetupKey, RunMapTask,
         MapTaskThrows, LockStore, TestEmpty, SwapIn, InsertInto, InsertThrows, FinishMerge,
         RecordMapTime, MapTimesThrows
  <2>. QED
    BY <2>1
<1>2. ASSUME NEW w \in Workers, ReduceStep(w)
      PROVE  phase # "done" /\ phase' # "done"
  <2>1. pc[w] \in ReduceLabels /\ phase' = phase
    BY <1>2 DEF ReduceStep, LockPartition, ReadPartition, IncrPartition, SwapOut, ReduceKey,
         ReduceThrows, FinishPartition, RecordReduceTime, ReduceTimesThrows
  <2>. QED
    BY <2>1
<1>3. CASE MainStep
  BY <1>3 DEF MainStep, JoinMapThreads, StartShuffle, NextRound, JoinShuffleThreads,
       JoinReduceThreads, Collate, InnerLoopEnded
<1>. QED
  BY <1>1, <1>2, <1>3 DEF Next, Terminated

LEMMA StepRefines ==
  BaseInv /\ BoundInv /\ CleanInv /\ [Next]_vars
    => [Contract!Next([r \in RKeys |-> Owed(r)])]_(Contract!vars)
<1>. DEFINE owed == [r \in RKeys |-> Owed(r)]
            output == IF phase = "done" THEN [r \in RKeys |-> Result(r)] ELSE NoResults
<1>. SUFFICES ASSUME BaseInv, BoundInv, CleanInv, [Next]_vars
              PROVE  Contract!Next(owed) \/ UNCHANGED Contract!vars
  OBVIOUS
<1>1. CASE UNCHANGED vars
  BY <1>1 DEF vars, Contract!vars, Result, NoResults
<1>2. CASE Return
  <2>1. /\ phase = "collate" /\ phase' = "done" /\ stderr' = stderr
        /\ store' = store /\ rows' = rows
    BY <1>2 DEF Return, reduceVars
  <2>2. output' = [r \in RKeys |-> Result(r)]
    BY <2>1 DEF Result
  <2>3. \A r \in DOMAIN owed : Contract!Within(output'[r], owed[r])
    BY <2>2, ResultsWithin DEF BaseInv
  <2>4. stderr \/ output' = owed
    BY <2>1, <2>2, CleanEnd, CompleteIsOwed
  <2>. QED
    BY <2>1, <2>3, <2>4 DEF Contract!Next, Contract!Finish
<1>3. CASE phase # "done" /\ phase' # "done"
  <2>1. output = NoResults /\ output' = NoResults
    BY <1>3 DEF NoResults
  <2>2. stderr \in BOOLEAN /\ stderr' \in BOOLEAN /\ (stderr => stderr')
    BY BaseNext, ErrorsStay DEF BaseInv, TypeInv, TypeOK
  <2>. QED
    BY <1>3, <2>1, <2>2 DEF Contract!Next, Contract!Report, Contract!vars
<1>. QED
  BY <1>1, <1>2, <1>3, EarlySteps

(* A run of the threads is a run of the contract their callers rely on: what  *)
(* falls short of it was announced before the run ended, and no value is      *)
(* there more often than emitted, however many threads, keys and partitions.  *)
THEOREM ImplementsContractHolds == Spec => ImplementsContract
<1>. DEFINE IInv == BaseInv /\ BoundInv /\ CleanInv
<1>1. Init => IInv
  BY BaseInit, BoundInit, CleanInit
<1>2. IInv /\ [Next]_vars => IInv'
  BY BaseNext, BoundNext, CleanNext
<1>3. Init => Contract!Init(NoResults)
  BY DEF Init, Contract!Init
<1>4. IInv /\ [Next]_vars => [Contract!Next([r \in RKeys |-> Owed(r)])]_(Contract!vars)
  BY StepRefines
<1>. QED
  BY <1>1, <1>2, <1>3, <1>4, PTL DEF Spec, ImplementsContract
--------------------------------------------------------------------------------
(* The counters: what each thread counted, and what collate_results adds up. *)

Column(c)  == [w \in Workers |-> counters[w][c]]
Counted(c) == Numbers!PartialSums(C, Column(c))[C]

(* the thread has counted the begin of a map key and not yet its outcome *)
Begun(w) == pc[w] \in {"lock_m2", "merge", "swap", "insert"}

Results == {r \in RKeys : rows[r] = 1}

(* The counters of a thread balance but for the key it works on, and those of *)
(* all threads count the merged keys and the results.                         *)
Balanced ==
  /\ \A w \in Workers :
       /\ counters[w]["map_keys_executed"] =
            counters[w]["map_keys_completed"] + counters[w]["map_key_errors"]
              + (IF Begun(w) THEN 1 ELSE 0)
       /\ counters[w]["reduce_keys_executed"] =
            counters[w]["reduce_keys_completed"] + counters[w]["reduce_key_errors"]
  /\ Counted("map_keys_completed") = Cardinality(merged)
  /\ Counted("reduce_keys_completed") = Cardinality(Results)

(* The caller's counters hold the sums of the first loop results objects. *)
Collated ==
  /\ phase \in {"map", "intermediate", "reduce"} => \A c \in Counter : total[c] = 0
  /\ phase = "collate" => loop <= C
  /\ phase \in {"collate", "done"} =>
       \A c \in Counter :
         total[c] = Numbers!PartialSums(C, Column(c))[IF phase = "done" THEN C ELSE loop]

LEMMA ColumnType ==
  ASSUME TypeOK, NEW c \in Counter
  PROVE  /\ Column(c) \in [1 .. C -> Nat]
         /\ Numbers!IsPartialSums(Numbers!PartialSums(C, Column(c)), C, Column(c))
         /\ C \in Nat
<1>1. Column(c) \in [1 .. C -> Nat]
  BY DEF Column, TypeOK, Workers
<1>2. C \in Nat
  OBVIOUS
<1>. QED
  BY <1>1, <1>2, Numbers!PartialSumsExist

(* A thread that counts changes its own counters and no others. *)
LEMMA CountEntry ==
  ASSUME TypeOK, NEW w \in Workers, NEW S, counters' = Count(w, S), NEW v \in Workers,
         NEW c \in Counter
  PROVE  counters'[v][c] = IF v = w /\ c \in S THEN counters[v][c] + 1 ELSE counters[v][c]
BY DEF TypeOK, Count

LEMMA CountedGrows ==
  ASSUME TypeOK, TypeOK', NEW w \in Workers, NEW S, counters' = Count(w, S), NEW c \in Counter
  PROVE  Counted(c)' = IF c \in S THEN Counted(c) + 1 ELSE Counted(c)
<1>. DEFINE f == Column(c)
            g == [v \in Workers |-> counters'[v][c]]
<1>1. f \in [1 .. C -> Nat] /\ g \in [1 .. C -> Nat] /\ C \in Nat /\ w \in 1 .. C
  <2>1. counters \in [Workers -> [Counter -> Nat]] /\ counters' \in [Workers -> [Counter -> Nat]]
    BY DEF TypeOK
  <2>. QED
    BY <2>1 DEF Column, Workers
<1>2. \A i \in 1 .. C : g[i] = IF i = w /\ c \in S THEN f[i] + 1 ELSE f[i]
  BY CountEntry DEF Column, Workers
<1>3. Column(c)' = g
  BY DEF Column
<1>. HIDE DEF f, g
<1>4. CASE c \in S
  <2>1. \A i \in 1 .. C : g[i] = IF i = w THEN f[i] + 1 ELSE f[i]
    BY <1>2, <1>4
  <2>2. Numbers!PartialSums(C, g)[C] = Numbers!PartialSums(C, f)[C] + 1
    BY <1>1, <2>1, NumbersConstants, Numbers!PartialSumsGrow
  <2>. QED
    BY <1>3, <1>4, <2>2 DEF Counted, f
<1>5. CASE c \notin S
  <2>1. f = [i \in 1 .. C |-> f[i]] /\ g = [i \in 1 .. C |-> g[i]]
    BY <1>1
  <2>2. f = g
    BY <1>2, <1>5, <2>1
  <2>. QED
    BY <1>3, <1>5, <2>2 DEF Counted, f
<1>. QED
  BY <1>4, <1>5

LEMMA CountedSame ==
  ASSUME counters' = counters, NEW c
  PROVE  Counted(c)' = Counted(c)
BY DEF Counted, Column

(* Six actions of the threads count. *)
CountingStep(w) ==
  \/ RunMapTask(w) \/ MapTaskThrows(w) \/ InsertThrows(w) \/ FinishMerge(w)
  \/ ReduceKey(w) \/ ReduceThrows(w)

LEMMA CountSteps ==
  ASSUME BaseInv, [Next]_vars
  PROVE  \/ \E w \in Workers : CountingStep(w)
         \/ /\ counters' = counters /\ merged' = merged /\ rows' = rows
            /\ \A v \in Workers : Begun(v)' = Begun(v)
<1>. DEFINE Frame ==
       /\ counters' = counters /\ merged' = merged /\ rows' = rows
       /\ \A v \in Workers : Begun(v)' = Begun(v)
<1>. SUFFICES ASSUME \A w \in Workers : ~CountingStep(w)
              PROVE  Frame
  OBVIOUS
<1>. USE DEF BaseInv, TypeInv, TypeOK, Begun, Goto, keyVars, mergeVars, reduceVars, mainVars
<1>1. ASSUME NEW w \in Workers, MapStep(w)
      PROVE  Frame
  <2>1. counters' = counters /\ merged' = merged /\ rows' = rows
    BY <1>1 DEF CountingStep, MapStep, LockKeys, NewKeyThrows, ReadSequence, SetupKey, LockStore,
         TestEmpty, SwapIn, InsertInto, RecordMapTime, MapTimesThrows
  <2>2. (\A v \in Workers \ {w} : pc'[v] = pc[v]) /\ Begun(w)' = Begun(w)
    BY <1>1 DEF CountingStep, MapStep, LockKeys, NewKeyThrows, ReadSequence, SetupKey, LockStore,
         TestEmpty, SwapIn, InsertInto, RecordMapTime, MapTimesThrows
  <2>. QED
    BY <2>1, <2>2
<1>2. ASSUME NEW w \in Workers, ReduceStep(w)
      PROVE  Frame
  <2>1. counters' = counters /\ merged' = merged /\ rows' = rows
    BY <1>2 DEF CountingStep, ReduceStep, LockPartition, ReadPartition, IncrPartition, SwapOut,
         FinishPartition, RecordReduceTime, ReduceTimesThrows
  <2>2. (\A v \in Workers \ {w} : pc'[v] = pc[v]) /\ Begun(w)' = Begun(w)
    BY <1>2 DEF CountingStep, ReduceStep, LockPartition, ReadPartition, IncrPartition, SwapOut,
         FinishPartition, RecordReduceTime, ReduceTimesThrows
  <2>. QED
    BY <2>1, <2>2
<1>3. CASE JoinShuffleThreads
  <2>1. \A v \in Workers : ~Begun(v)
    BY <1>3 DEF JoinShuffleThreads, InnerLoopEnded, PhaseInv, MapLabels
  <2>2. \A v \in Workers : ~Begun(v)'
    BY <1>3 DEF JoinShuffleThreads
  <2>. QED
    BY <1>3, <2>1, <2>2 DEF JoinShuffleThreads
<1>4. CASE MainStep /\ ~JoinShuffleThreads
  BY <1>4 DEF MainStep, JoinMapThreads, StartShuffle, NextRound, JoinReduceThreads, Collate, Return
<1>5. CASE UNCHANGED vars
  BY <1>5 DEF vars
<1>. QED
  BY <1>1, <1>2, <1>3, <1>4, <1>5 DEF Next, Terminated

(* What a counting step adds, for the thread w that counts. *)
LEMMA BalancedStep ==
  ASSUME BaseInv, BaseInv', Balanced, NEW w \in Workers, CountingStep(w)
  PROVE  Balanced'
<1>. USE DEF BaseInv, TypeInv, TypeOK, Goto, keyVars, mergeVars, reduceVars, mainVars
<1>. DEFINE Even(v) ==
       /\ counters[v]["map_keys_executed"] =
            counters[v]["map_keys_completed"] + counters[v]["map_key_errors"]
              + (IF Begun(v) THEN 1 ELSE 0)
       /\ counters[v]["reduce_keys_executed"] =
            counters[v]["reduce_keys_completed"] + counters[v]["reduce_key_errors"]
<1>1. PICK S :
        /\ counters' = Count(w, S)
        /\ \/ S = {"map_keys_executed"} /\ RunMapTask(w)
           \/ S = {"map_keys_executed", "map_key_errors"} /\ MapTaskThrows(w)
           \/ S = {"map_key_errors"} /\ InsertThrows(w)
           \/ S = {"map_keys_completed"} /\ FinishMerge(w)
           \/ S = {"reduce_keys_executed", "reduce_keys_completed"} /\ ReduceKey(w)
           \/ S = {"reduce_keys_executed", "reduce_key_errors"} /\ ReduceThrows(w)
  BY DEF CountingStep, RunMapTask, MapTaskThrows, InsertThrows, FinishMerge, ReduceKey, ReduceThrows
<1>2. \A v \in Workers, c \in Counter :
        counters'[v][c] = IF v = w /\ c \in S THEN counters[v][c] + 1 ELSE counters[v][c]
  BY <1>1, CountEntry
<1>3. \A v \in Workers, c \in Counter : counters[v][c] \in Nat
  OBVIOUS
<1>4. /\ \A v \in Workers \ {w} : pc'[v] = pc[v]
      /\ RunMapTask(w) => ~Begun(w) /\ Begun(w)'
      /\ MapTaskThrows(w) => ~Begun(w) /\ ~Begun(w)'
      /\ InsertThrows(w) => Begun(w) /\ ~Begun(w)'
      /\ FinishMerge(w) => Begun(w) /\ ~Begun(w)'
      /\ ReduceKey(w) => ~Begun(w) /\ ~Begun(w)'
      /\ ReduceThrows(w) => ~Begun(w) /\ ~Begun(w)'
  BY DEF CountingStep, RunMapTask, MapTaskThrows, InsertThrows, FinishMerge, ReduceKey, ReduceThrows, Begun
<1>5. ASSUME NEW v \in Workers PROVE Even(v)'
  <2>1. Even(v)
    BY DEF Balanced
  <2>2. \A c \in Counter : counters[v][c] \in Nat
    BY <1>3
  <2>3. CASE v # w
    <3>1. \A c \in Counter : counters'[v][c] = counters[v][c]
      BY <1>2, <2>3
    <3>2. Begun(v)' = Begun(v)
      BY <1>4, <2>3 DEF Begun
    <3>. QED
      BY <2>1, <3>1, <3>2 DEF Counter
  <2>4. CASE v = w
    <3>1. \A c \in Counter : counters'[w][c] = IF c \in S THEN counters[w][c] + 1 ELSE counters[w][c]
      BY <1>2
    <3>. HIDE DEF TypeOK, TypeInv, BaseInv
    <3>2. CASE S = {"map_keys_executed"} /\ RunMapTask(w)
      BY <1>4, <2>1, <2>2, <2>4, <3>1, <3>2 DEF Counter
    <3>3. CASE S = {"map_keys_executed", "map_key_errors"} /\ MapTaskThrows(w)
      BY <1>4, <2>1, <2>2, <2>4, <3>1, <3>3 DEF Counter
    <3>4. CASE S = {"map_key_errors"} /\ InsertThrows(w)
      BY <1>4, <2>1, <2>2, <2>4, <3>1, <3>4 DEF Counter
    <3>5. CASE S = {"map_keys_completed"} /\ FinishMerge(w)
      BY <1>4, <2>1, <2>2, <2>4, <3>1, <3>5 DEF Counter
    <3>6. CASE S = {"reduce_keys_executed", "reduce_keys_completed"} /\ ReduceKey(w)
      BY <1>4, <2>1, <2>2, <2>4, <3>1, <3>6 DEF Counter
    <3>7. CASE S = {"reduce_keys_executed", "reduce_key_errors"} /\ ReduceThrows(w)
      BY <1>4, <2>1, <2>2, <2>4, <3>1, <3>7 DEF Counter
    <3>. QED
      BY <1>1, <3>2, <3>3, <3>4, <3>5, <3>6, <3>7
  <2>. QED
    BY <2>3, <2>4
<1>6. Counted("map_keys_completed")' = Cardinality(merged)'
  <2>1. IsFiniteSet(merged)
    <3>1. IsFiniteSet(Keys)
      <4>1. N - 1 \in Int /\ 0 \in Int
        OBVIOUS
      <4>. QED
        BY <4>1, FS_Interval DEF Keys
    <3>. QED
      BY <3>1, FS_Subset
  <2>2. "map_keys_completed" \in Counter
    BY DEF Counter
  <2>3. Counted("map_keys_completed")' =
          IF "map_keys_completed" \in S THEN Counted("map_keys_completed") + 1
          ELSE Counted("map_keys_completed")
    BY <1>1, <2>2, CountedGrows
  <2>4. CASE FinishMerge(w)
    <3>1. merged' = merged \cup {key[w]} /\ HoldsKey(w) /\ counters' = Count(w, {"map_keys_completed"})
      BY <2>4 DEF FinishMerge, HoldsKey
    <3>2. key[w] \notin merged
      BY <3>1 DEF ClaimInv, ClaimedOnce
    <3>3. Cardinality(merged') = Cardinality(merged) + 1
      BY <2>1, <3>1, <3>2, FS_AddElement
    <3>4. Counted("map_keys_completed")' = Counted("map_keys_completed") + 1
      BY <2>2, <3>1, CountedGrows
    <3>. QED
      BY <3>3, <3>4 DEF Balanced
  <2>5. CASE ~FinishMerge(w)
    <3>1. "map_keys_completed" \notin S
      <4> HIDE DEF TypeOK, TypeInv, BaseInv
      <4> QED
        BY <1>1, <2>5
    <3>2. merged' = merged
      BY <1>1, <2>5 DEF RunMapTask, MapTaskThrows, InsertThrows, ReduceKey, ReduceThrows
    <3>. QED
      BY <2>3, <3>1, <3>2 DEF Balanced
  <2>. QED
    BY <2>4, <2>5
<1>7. Counted("reduce_keys_completed")' = Cardinality(Results)'
  <2>1. IsFiniteSet(Results)
    BY FS_Subset DEF Results
  <2>2. "reduce_keys_completed" \in Counter
    BY DEF Counter
  <2>3. CASE ReduceKey(w)
    <3>1. PICK r \in RKeys : taken[w][r] # Absent /\ rows' = [rows EXCEPT ![r] = @ + 1]
      BY <2>3 DEF ReduceKey, IsNext, Todo
    <3>2. rows[r] = 0
      BY <3>1 DEF RowsInv
    <3>3. Results' = Results \cup {r} /\ r \notin Results
      BY <3>1, <3>2 DEF Results
    <3>4. Cardinality(Results') = Cardinality(Results) + 1
      BY <2>1, <3>3, FS_AddElement
    <3>5. counters' = Count(w, {"reduce_keys_executed", "reduce_keys_completed"})
      BY <2>3 DEF ReduceKey
    <3>6. Counted("reduce_keys_completed")' = Counted("reduce_keys_completed") + 1
      BY <2>2, <3>5, CountedGrows
    <3>. QED
      BY <3>4, <3>6 DEF Balanced
  <2>4. CASE ~ReduceKey(w)
    <3>1. "reduce_keys_completed" \notin S
      <4> HIDE DEF TypeOK, TypeInv, BaseInv
      <4> QED
        BY <1>1, <2>4
    <3>2. rows' = rows
      BY <1>1, <2>4 DEF RunMapTask, MapTaskThrows, InsertThrows, FinishMerge, ReduceThrows
    <3>3. Counted("reduce_keys_completed")' = Counted("reduce_keys_completed")
      BY <1>1, <2>2, <3>1, CountedGrows
    <3>. QED
      BY <3>2, <3>3 DEF Balanced, Results
  <2>. QED
    BY <2>3, <2>4
<1>. QED
  BY <1>5, <1>6, <1>7 DEF Balanced

LEMMA BalancedNext == BaseInv /\ Balanced /\ [Next]_vars => Balanced'
<1>. SUFFICES ASSUME BaseInv, Balanced, [Next]_vars PROVE Balanced'
  OBVIOUS
<1>1. BaseInv'
  BY BaseNext
<1>2. CASE \E w \in Workers : CountingStep(w)
  BY <1>1, <1>2, BalancedStep
<1>3. CASE /\ counters' = counters /\ merged' = merged /\ rows' = rows
           /\ \A v \in Workers : Begun(v)' = Begun(v)
  <2>1. /\ Counted("map_keys_completed")' = Counted("map_keys_completed")
        /\ Counted("reduce_keys_completed")' = Counted("reduce_keys_completed")
    BY <1>3, CountedSame
  <2>. QED
    BY <1>3, <2>1 DEF Balanced, Results
<1>. QED
  BY <1>2, <1>3, CountSteps

LEMMA BalancedInit == Init => Balanced /\ Collated
<1>. SUFFICES ASSUME Init PROVE Balanced /\ Collated
  OBVIOUS
<1>1. \A w \in Workers, c \in Counter : counters[w][c] = 0
  BY DEF Init, Zeroes
<1>2. ASSUME NEW c \in Counter PROVE Counted(c) = 0
  <2>. DEFINE U == [i \in 0 .. C |-> 0]
              f == Column(c)
  <2>1. TypeOK
    BY TypeInit DEF TypeInv
  <2>2. Numbers!IsPartialSums(Numbers!PartialSums(C, f), C, f) /\ C \in Nat
    BY <2>1, ColumnType
  <2>3. \A i \in 1 .. C : f[i] = 0
    BY <1>1 DEF Column, Workers
  <2>. HIDE DEF f
  <2>4. Numbers!IsPartialSums(U, C, f)
    BY <2>2, <2>3 DEF Numbers!IsPartialSums
  <2>5. U[C] = 0
    BY <2>2
  <2>. HIDE DEF U
  <2>6. Numbers!PartialSums(C, f) = U
    BY <2>2, <2>4, Numbers!PartialSumsUnique
  <2>. QED
    BY <2>5, <2>6 DEF Counted, f
<1>3. \A w \in Workers : ~Begun(w)
  BY DEF Init, Begun
<1>4. Cardinality(merged) = 0 /\ Cardinality(Results) = 0
  <2>1. merged = {} /\ Results = {}
    BY DEF Init, Results
  <2>. QED
    BY <2>1, FS_EmptySet
<1>. QED
  BY <1>1, <1>2, <1>3, <1>4 DEF Balanced, Collated, Counter, Init, Zeroes

LEMMA CollatedNext == BaseInv /\ Collated /\ [Next]_vars => Collated'
<1>. SUFFICES ASSUME BaseInv, Collated, [Next]_vars PROVE Collated'
  OBVIOUS
<1>. USE DEF BaseInv, TypeInv, TypeOK, keyVars, mergeVars, reduceVars, mainVars
<1>1. ASSUME NEW w \in Workers, MapStep(w) \/ ReduceStep(w)
      PROVE  Collated'
  <2>1. pc[w] \in MapLabels \cup ReduceLabels
    BY <1>1 DEF MapStep, ReduceStep, LockKeys, NewKeyThrows, ReadSequence, SetupKey, RunMapTask,
         MapTaskThrows, LockStore, TestEmpty, SwapIn, InsertInto, InsertThrows, FinishMerge,
         RecordMapTime, MapTimesThrows, LockPartition, ReadPartition, IncrPartition, SwapOut,
         ReduceKey, ReduceThrows, FinishPartition, RecordReduceTime, ReduceTimesThrows,
         MapLabels, ReduceLabels
  <2>2. phase \in {"map", "reduce"}
    BY <2>1 DEF PhaseInv
  <2>3. phase' = phase /\ total' = total
    BY <1>1 DEF MapStep, ReduceStep, LockKeys, NewKeyThrows, ReadSequence, SetupKey, RunMapTask,
         MapTaskThrows, LockStore, TestEmpty, SwapIn, InsertInto, InsertThrows, FinishMerge,
         RecordMapTime, MapTimesThrows, LockPartition, ReadPartition, IncrPartition, SwapOut,
         ReduceKey, ReduceThrows, FinishPartition, RecordReduceTime, ReduceTimesThrows
  <2>. QED
    BY <2>2, <2>3 DEF Collated
<1>2. CASE JoinMapThreads \/ StartShuffle \/ NextRound \/ JoinShuffleThreads
  BY <1>2 DEF JoinMapThreads, StartShuffle, NextRound, JoinShuffleThreads, InnerLoopEnded, Collated
<1>3. CASE JoinReduceThreads
  <2>1. /\ phase = "reduce" /\ phase' = "collate" /\ loop' = 0 /\ total' = total
        /\ counters' = counters
    BY <1>3 DEF JoinReduceThreads
  <2>2. ASSUME NEW c \in Counter
        PROVE  total'[c] = Numbers!PartialSums(C, Column(c)')[0]
    <3>1. Numbers!PartialSums(C, Column(c))[0] = 0
      BY ColumnType DEF Numbers!IsPartialSums
    <3>2. Column(c)' = Column(c)
      BY <2>1 DEF Column
    <3>. QED
      BY <2>1, <3>1, <3>2 DEF Collated
  <2>. QED
    BY <2>1, <2>2 DEF Collated
<1>4. CASE Collate
  <2>1. /\ phase = "collate" /\ phase' = "collate" /\ loop < C /\ loop' = loop + 1
        /\ total' = [c \in Counter |-> total[c] + counters[loop + 1][c]]
        /\ counters' = counters
    BY <1>4 DEF Collate
  <2>2. loop + 1 \in 1 .. C /\ loop + 1 <= C /\ (loop + 1) - 1 = loop
    BY <2>1
  <2>3. ASSUME NEW c \in Counter
        PROVE  total'[c] = Numbers!PartialSums(C, Column(c)')[loop + 1]
    <3>. DEFINE S == Numbers!PartialSums(C, Column(c))
    <3>1. S[loop + 1] = S[loop] + Column(c)[loop + 1]
      BY <2>2, ColumnType DEF Numbers!IsPartialSums
    <3>2. Column(c)[loop + 1] = counters[loop + 1][c]
      BY <2>2 DEF Column, Workers
    <3>3. total[c] = S[loop]
      BY <2>1 DEF Collated
    <3>4. total'[c] = total[c] + counters[loop + 1][c]
      BY <2>1
    <3>5. Column(c)' = Column(c)
      BY <2>1 DEF Column
    <3>. QED
      BY <3>1, <3>2, <3>3, <3>4, <3>5
  <2>. QED
    BY <2>1, <2>2, <2>3 DEF Collated
<1>5. CASE Return
  <2>1. /\ phase = "collate" /\ phase' = "done" /\ loop = C /\ total' = total
        /\ counters' = counters
    BY <1>5 DEF Return
  <2>. QED
    BY <2>1 DEF Collated, Column
<1>6. CASE UNCHANGED vars
  BY <1>6 DEF vars, Collated, Column
<1>. QED
  BY <1>1, <1>2, <1>3, <1>4, <1>5, <1>6 DEF Next, MainStep, Terminated

LEMMA AccountsAtEnd ==
  ASSUME BaseInv, Balanced, Collated
  PROVE  CountersAccount
<1>. SUFFICES ASSUME phase = "done" PROVE CountersAccount
  BY DEF CountersAccount
<1>1. TypeOK
  BY DEF BaseInv, TypeInv
<1>2. \A c \in Counter : total[c] = Counted(c)
  BY DEF Collated, Counted
<1>3. \A w \in Workers : ~Begun(w)
  BY DEF BaseInv, PhaseInv, Begun, MapLabels
<1>4. ASSUME NEW a \in Counter, NEW b \in Counter, NEW c \in Counter,
             \A w \in Workers : counters[w][a] = counters[w][b] + counters[w][c]
      PROVE  total[a] = total[b] + total[c]
  <2>. DEFINE f == Column(b)
              g == Column(c)
              h == Column(a)
  <2>1. /\ f \in [1 .. C -> Nat] /\ g \in [1 .. C -> Nat] /\ h \in [1 .. C -> Nat] /\ C \in Nat
    BY <1>1, ColumnType
  <2>2. \A i \in 1 .. C : h[i] = f[i] + g[i]
    BY <1>4 DEF Column, Workers
  <2>. HIDE DEF f, g, h
  <2>3. Numbers!PartialSums(C, h)[C] = Numbers!PartialSums(C, f)[C] + Numbers!PartialSums(C, g)[C]
    BY <2>1, <2>2, NumbersConstants, Numbers!PartialSumsAdd
  <2>. QED
    BY <1>2, <2>3 DEF Counted, f, g, h
<1>5. Counter = {"map_keys_executed", "map_key_errors", "map_keys_completed",
                 "reduce_keys_executed", "reduce_key_errors", "reduce_keys_completed"}
  BY DEF Counter
<1>6. \A w \in Workers :
        /\ counters[w]["map_keys_executed"] =
             counters[w]["map_keys_completed"] + counters[w]["map_key_errors"]
        /\ counters[w]["reduce_keys_executed"] =
             counters[w]["reduce_keys_completed"] + counters[w]["reduce_key_errors"]
  BY <1>1, <1>3, <1>5 DEF Balanced, TypeOK
<1>7. /\ total["map_keys_executed"] = total["map_keys_completed"] + total["map_key_errors"]
      /\ total["reduce_keys_executed"] =
           total["reduce_keys_completed"] + total["reduce_key_errors"]
  BY <1>4, <1>5, <1>6
<1>8. /\ total["map_keys_completed"] = Cardinality(merged)
      /\ total["reduce_keys_completed"] = Cardinality({r \in RKeys : rows[r] = 1})
  BY <1>2, <1>5 DEF Balanced, Results
<1>. QED
  BY <1>7, <1>8 DEF CountersAccount

(* The counters that the caller is given account for every key: what any of   *)
(* the threads began it completed or counted as an error, and the completed   *)
(* keys are those merged and reduced, with exceptions anywhere.               *)
THEOREM CountersAccountHolds == Spec => []CountersAccount
<1>. DEFINE IInv == BaseInv /\ Balanced /\ Collated
<1>1. Init => IInv
  BY BaseInit, BalancedInit
<1>2. IInv /\ [Next]_vars => IInv'
  BY BaseNext, BalancedNext, CollatedNext
<1>3. IInv => CountersAccount
  BY AccountsAtEnd
<1>. QED
  BY <1>1, <1>2, <1>3, PTL DEF Spec

--------------------------------------------------------------------------------
(* The caller of the job, who walks over the results by their keys. *)

StoredKeys == {r \in RKeys : store[r] # Absent}
KeysAfter(k) == {r \in StoredKeys : r > k}

LEMMA ListLengthIsNumber ==
  ASSUME TypeOK, NEW r \in StoredKeys
  PROVE  ListLength(r) \in Nat
<1>1. rows[r] \in Nat
  BY DEF TypeOK, StoredKeys
<1>2. store[r] \in [Keys -> Nat]
  BY DEF TypeOK, StoredKeys, MaybeBag, Bags
<1>3. IsFiniteSet(Keys)
  BY FS_Interval DEF Keys
<1>4. Numbers!Counts(store[r])[Keys] \in Nat
  <2>1. Numbers!IsFiniteSet(Keys)
    BY <1>3, Zenon DEF IsFiniteSet, Numbers!IsFiniteSet
  <2>2. \A s \in SUBSET Keys : Numbers!Counts(store[r])[s] \in Nat
    BY <1>2, <2>1, NumbersConstants, Zenon, Numbers!CountsUnfold
  <2>. QED
    BY <2>2
<1>5. DOMAIN store[r] = Keys
  BY <1>2
<1>6. ListLength(r) = IF rows[r] > 0 THEN rows[r] ELSE Numbers!Counts(store[r])[DOMAIN store[r]]
  BY Zenon DEF ListLength, Numbers!Counts, MapThenSumSet, MapThenFoldSet, Numbers!Pick
<1>. QED
  BY <1>1, <1>4, <1>5, <1>6

(* The maps of the partitions divide the keys that have a list. *)
LEMMA StoreShape ==
  /\ \A p \in Partitions : DOMAIN ResultStore[p] = {r \in StoredKeys : Part[r] = p}
  /\ \A r \in StoredKeys : Part[r] \in Partitions /\ ResultStore[Part[r]][r] = ListLength(r)
  /\ Reader!AllKeys = StoredKeys
  /\ \A r \in StoredKeys : Reader!Length(r) = ListLength(r)
<1>1. \A p \in Partitions :
        ResultStore[p] = [r \in {q \in RKeys : Part[q] = p /\ store[q] # Absent} |-> ListLength(r)]
  BY DEF ResultStore
<1>2. ASSUME NEW p \in Partitions PROVE DOMAIN ResultStore[p] = {r \in StoredKeys : Part[r] = p}
  <2>1. DOMAIN ResultStore[p] = {q \in RKeys : Part[q] = p /\ store[q] # Absent}
    BY <1>1
  <2>. QED
    BY <2>1 DEF StoredKeys
<1>3. ASSUME NEW r \in StoredKeys
      PROVE  Part[r] \in Partitions /\ ResultStore[Part[r]][r] = ListLength(r)
  <2>1. Part[r] \in Partitions
    BY DEF StoredKeys
  <2>. QED
    BY <1>1, <2>1 DEF StoredKeys
<1>4. Reader!AllKeys = StoredKeys
  <2>1. Reader!AllKeys = UNION {DOMAIN ResultStore[p] : p \in Partitions}
    BY DEF Reader!AllKeys, Reader!Partitions, Partitions
  <2>2. ASSUME NEW r \in StoredKeys PROVE r \in UNION {DOMAIN ResultStore[p] : p \in Partitions}
    BY <1>2, <1>3
  <2>. QED
    BY <1>2, <2>1, <2>2
<1>5. ASSUME NEW r \in StoredKeys PROVE Reader!Length(r) = ListLength(r)
  <2>1. \A p \in Partitions : r \in DOMAIN ResultStore[p] <=> p = Part[r]
    BY <1>2
  <2>2. Part[r] = CHOOSE p \in Partitions : r \in DOMAIN ResultStore[p]
    BY <1>3, <2>1
  <2>3. Reader!Length(r) =
          ResultStore[CHOOSE p \in Partitions : r \in DOMAIN ResultStore[p]][r]
    BY DEF Reader!Length, Reader!Partitions, Partitions
  <2>. QED
    BY <1>3, <2>2, <2>3
<1>. QED
  BY <1>2, <1>3, <1>4, <1>5

(* the least key after k that has a list *)
IsNextStored(x, k) == x \in KeysAfter(k) /\ \A y \in KeysAfter(k) : x <= y

LEMMA NextStoredExists ==
  ASSUME NEW k, KeysAfter(k) # {}
  PROVE  \E x : IsNextStored(x, k)
<1>1. KeysAfter(k) \subseteq Nat
  BY DEF KeysAfter, StoredKeys
<1>. QED
  BY <1>1, Numbers!LeastNumber DEF IsNextStored

(* where the map iterators stand when the keys up to k are behind them *)
PlacesAfter(k) == [p \in Partitions |-> Reader!NextKey(p, k)]

LEMMA NextKeyIs ==
  ASSUME NEW p \in Partitions, NEW k
  PROVE  LET later == {r \in KeysAfter(k) : Part[r] = p}
         IN  /\ later = {} => Reader!NextKey(p, k) = End
             /\ later # {} => /\ Reader!NextKey(p, k) \in later /\ Reader!NextKey(p, k) # End
                              /\ \A y \in later : Reader!NextKey(p, k) <= y
<1>. DEFINE later == {r \in KeysAfter(k) : Part[r] = p}
            inMap == {q \in DOMAIN ResultStore[p] : q > k}
<1>1. inMap = later
  BY StoreShape DEF KeysAfter
<1>5. Reader!NextKey(p, k) = IF inMap = {} THEN End ELSE CHOOSE x \in inMap : \A y \in inMap : x <= y
  BY Zenon DEF Reader!NextKey, Reader!Min
<1>. HIDE DEF later, inMap
<1>2. Reader!NextKey(p, k) = IF later = {} THEN End ELSE CHOOSE x \in later : \A y \in later : x <= y
  BY <1>1, <1>5
<1>3. later \subseteq Nat /\ later \subseteq RKeys
  BY DEF later, KeysAfter, StoredKeys
<1>4. ASSUME later # {}
      PROVE  /\ Reader!NextKey(p, k) \in later /\ Reader!NextKey(p, k) # End
             /\ \A y \in later : Reader!NextKey(p, k) <= y
  <2>1. \E x \in later : \A y \in later : x <= y
    BY <1>3, <1>4, NumbersConstants, Numbers!LeastNumber
  <2>. QED
    BY <1>2, <1>3, <1>4, <2>1, EndAssumption
<1>. QED
  BY <1>2, <1>4 DEF later

(* Of iterators that stand so, the one with the smallest key is at the next *)
(* key that has a list.                                                     *)
LEMMA SmallestIsNext ==
  ASSUME NEW k
  PROVE  /\ KeysAfter(k) = {} => Reader!Smallest(PlacesAfter(k)) = P
         /\ \A x : IsNextStored(x, k) => /\ Reader!Smallest(PlacesAfter(k)) = Part[x]
                                         /\ Part[x] \in Partitions
                                         /\ PlacesAfter(k)[Part[x]] = x
<1>. DEFINE its == PlacesAfter(k)
            open == {p \in Partitions : its[p] # End}
            Least(p) == \A q \in open : its[p] < its[q] \/ (its[p] = its[q] /\ p <= q)
<1>1. \A p \in Partitions : its[p] = Reader!NextKey(p, k)
  BY DEF PlacesAfter
<1>2. Reader!Smallest(its) = IF open = {} THEN P ELSE CHOOSE p \in open : Least(p)
  BY DEF Reader!Smallest, Reader!Partitions, Partitions
<1>3. \A p \in Partitions :
        IF \A r \in KeysAfter(k) : Part[r] # p THEN its[p] = End
        ELSE /\ its[p] \in KeysAfter(k) /\ Part[its[p]] = p /\ its[p] # End
             /\ \A r \in KeysAfter(k) : Part[r] = p => its[p] <= r
  BY <1>1, NextKeyIs
<1>. HIDE DEF its
<1>4. KeysAfter(k) \subseteq Nat /\ \A r \in KeysAfter(k) : Part[r] \in Partitions
  BY StoreShape DEF KeysAfter, StoredKeys
<1>5. KeysAfter(k) = {} => open = {}
  BY <1>3
<1>6. ASSUME NEW x, IsNextStored(x, k)
      PROVE  Reader!Smallest(its) = Part[x] /\ Part[x] \in Partitions /\ its[Part[x]] = x
  <2>1. x \in KeysAfter(k) /\ Part[x] \in Partitions /\ \A y \in KeysAfter(k) : x <= y
    BY <1>4, <1>6 DEF IsNextStored
  <2>2. its[Part[x]] = x /\ Part[x] \in open
    <3>1. its[Part[x]] \in KeysAfter(k) /\ its[Part[x]] # End /\ its[Part[x]] <= x
      BY <1>3, <2>1
    <3>. QED
      BY <1>4, <2>1, <3>1
  <2>3. \A q \in open : its[q] \in KeysAfter(k) /\ Part[its[q]] = q
    BY <1>3
  <2>4. \A q \in open : q # Part[x] => x < its[q]
    BY <1>4, <2>1, <2>3
  <2>5. Partitions \subseteq Int
    BY DEF Partitions
  <2>6. Least(Part[x])
    BY <2>2, <2>4, <2>5
  <2>7. \A p \in open : Least(p) => p = Part[x]
    <3>. SUFFICES ASSUME NEW p \in open, Least(p), p # Part[x] PROVE FALSE
      OBVIOUS
    <3>1. x < its[p] /\ (its[p] < x \/ its[p] = x)
      BY <2>2, <2>4
    <3>2. x \in Nat /\ its[p] \in Nat
      BY <1>4, <2>1, <2>3
    <3>. QED
      BY <3>1, <3>2
  <2>. HIDE DEF Least, open
  <2>8. (CHOOSE p \in open : Least(p)) = Part[x]
    BY <2>2, <2>6, <2>7
  <2>. QED
    BY <1>2, <2>1, <2>2, <2>8
<1>. QED
  BY <1>2, <1>5, <1>6 DEF its

(* Between a key and the next there is none. *)
LEMMA SamePlaces ==
  ASSUME NEW k \in Int, NEW x, IsNextStored(x, k)
  PROVE  PlacesAfter(x - 1) = PlacesAfter(k)
<1>1. x \in Nat /\ x > k /\ KeysAfter(k) \subseteq Nat
  BY DEF IsNextStored, KeysAfter, StoredKeys
<1>2. KeysAfter(x - 1) = KeysAfter(k)
  <2>1. \A r \in StoredKeys : r \in Nat
    BY DEF StoredKeys
  <2>2. \A r \in StoredKeys : r > k => x <= r
    BY DEF IsNextStored, KeysAfter
  <2>3. \A r \in StoredKeys : r > x - 1 <=> r > k
    BY <1>1, <2>1, <2>2
  <2>. QED
    BY <2>3 DEF KeysAfter
<1>3. ASSUME NEW p \in Partitions PROVE Reader!NextKey(p, x - 1) = Reader!NextKey(p, k)
  <2>1. {r \in DOMAIN ResultStore[p] : r > x - 1} = {r \in DOMAIN ResultStore[p] : r > k}
    BY <1>2, StoreShape DEF KeysAfter
  <2>. QED
    BY <2>1 DEF Reader!NextKey
<1>. QED
  BY <1>3 DEF PlacesAfter

(* Only the iterator of a key's own partition passes it. *)
LEMMA PlacesAdvance ==
  ASSUME NEW x \in StoredKeys
  PROVE  [PlacesAfter(x - 1) EXCEPT ![Part[x]] = Reader!NextKey(Part[x], x)] = PlacesAfter(x)
<1>1. x \in Nat /\ Part[x] \in Partitions
  BY StoreShape DEF StoredKeys
<1>2. ASSUME NEW p \in Partitions, p # Part[x] PROVE Reader!NextKey(p, x - 1) = Reader!NextKey(p, x)
  <2>3. DOMAIN ResultStore[p] = {r \in StoredKeys : Part[r] = p}
    BY StoreShape
  <2>1. \A r \in DOMAIN ResultStore[p] : r \in Nat /\ r # x
    BY <1>2, <2>3 DEF StoredKeys
  <2>2. {r \in DOMAIN ResultStore[p] : r > x - 1} = {r \in DOMAIN ResultStore[p] : r > x}
    BY <1>1, <2>1
  <2>. QED
    BY <2>2 DEF Reader!NextKey
<1>. QED
  BY <1>1, <1>2 DEF PlacesAfter

(* The n-th value of a key, what was read before it, and what has been read   *)
(* when a key is behind the caller.                                           *)
Place(k, n) == <<k, IF n <= ListLength(k) THEN n ELSE Unspecified>>
ReadThrough(k) == UNION {Reader!ValuesOf(j) : j \in {r \in StoredKeys : r <= k}}
ReadBefore(k, n) ==
  (UNION {Reader!ValuesOf(j) : j \in {r \in StoredKeys : r < k}}) \cup {<<k, j>> : j \in 1 .. n - 1}
AllValues == UNION {Reader!ValuesOf(k) : k \in StoredKeys}

(* the iterators its, current_ and value_ stand at the n-th value of a key *)
AtPlace(k, n, its, cur, val) ==
  /\ k \in StoredKeys /\ n \in Nat \ {0} /\ (n = 1 \/ n <= ListLength(k))
  /\ its = PlacesAfter(k - 1)
  /\ cur = [first |-> Part[k], second |-> n]
  /\ val = Place(k, n)

ValueRead(s) == {s[i] : i \in DOMAIN s}

(* The caller has read what lies before the value it stands at, in order; *)
(* before the run has returned it has not begun.                          *)
ReadInv ==
  /\ reading \in {"begin", "read", "increment", "ended"}
  /\ phase # "done" => reading = "begin"
  /\ reading = "begin" => results = <<>>
  /\ results \in Reader!Seq(Nat \X (Nat \cup {Unspecified}))
  /\ reading \in {"read", "increment"} => \E k, n :
       /\ AtPlace(k, n, iterators, current, value)
       /\ ValueRead(results) =
            ReadBefore(k, n) \cup (IF reading = "read" THEN {} ELSE {Place(k, n)})
  /\ reading = "ended" => ValueRead(results) = AllValues
  /\ \A i, j \in DOMAIN results : i < j => Reader!Before(results[i], results[j])

LEMMA ValuesOfKey ==
  ASSUME TypeOK, NEW k \in StoredKeys
  PROVE  /\ ListLength(k) \in Nat /\ k \in Nat
         /\ Reader!ValuesOf(k) = IF ListLength(k) = 0 THEN {<<k, Unspecified>>}
                                 ELSE {<<k, j>> : j \in 1 .. ListLength(k)}
<1>1. Reader!Length(k) = ListLength(k)
  BY StoreShape
<1>2. k \in Nat
  BY DEF StoredKeys
<1>. QED
  BY <1>1, <1>2, ListLengthIsNumber DEF Reader!ValuesOf

(* set_current finds the first value of the next key, or the end. *)
LEMMA Arrival ==
  ASSUME TypeOK, NEW k \in Int, NEW its, its = PlacesAfter(k), Reader!set_current(its)
  PROVE  \/ reading' = "ended" /\ ReadThrough(k) = AllValues
         \/ /\ reading' = "read"
            /\ \E x : /\ AtPlace(x, 1, its, current', value')
                      /\ ReadBefore(x, 1) = ReadThrough(k)
<1>1. \A r \in StoredKeys : r \in Nat
  BY DEF StoredKeys
<1>2. CASE KeysAfter(k) = {}
  <2>1. Reader!Smallest(its) = P
    BY <1>2, SmallestIsNext
  <2>2. reading' = "ended"
    BY <2>1 DEF Reader!set_current
  <2>3. {r \in StoredKeys : r <= k} = StoredKeys
    BY <1>1, <1>2 DEF KeysAfter
  <2>. QED
    BY <2>2, <2>3 DEF ReadThrough, AllValues
<1>3. CASE KeysAfter(k) # {}
  <2>1. PICK x : IsNextStored(x, k)
    BY <1>3, NextStoredExists
  <2>2. Reader!Smallest(its) = Part[x] /\ Part[x] \in Partitions /\ its[Part[x]] = x
    BY <2>1, SmallestIsNext
  <2>3. Part[x] # P
    BY <2>2 DEF Partitions
  <2>4. x \in StoredKeys /\ x \in Nat /\ x > k /\ \A r \in StoredKeys : r > k => x <= r
    BY <1>1, <2>1 DEF IsNextStored, KeysAfter
  <2>5. ResultStore[Part[x]][x] = ListLength(x)
    BY <2>4, StoreShape
  <2>6. /\ reading' = "read"
        /\ current' = [first |-> Part[x], second |-> 1]
        /\ value' = Place(x, 1)
    BY <2>2, <2>3, <2>5 DEF Reader!set_current, Reader!ValueAt, Place
  <2>7. its = PlacesAfter(x - 1)
    BY <2>1, SamePlaces
  <2>8. AtPlace(x, 1, its, current', value')
    BY <2>4, <2>6, <2>7 DEF AtPlace
  <2>11. \A r \in StoredKeys : r < x <=> r <= k
    BY <1>1, <2>4
  <2>9. {r \in StoredKeys : r < x} = {r \in StoredKeys : r <= k}
    BY <2>11
  <2>10. ReadBefore(x, 1) = ReadThrough(k)
    BY <2>9 DEF ReadBefore, ReadThrough
  <2>. QED
    BY <2>6, <2>8, <2>10
<1>. QED
  BY <1>2, <1>3

(* With the last value of a list all values up to its key have been read. *)
LEMMA ListRead ==
  ASSUME TypeOK, NEW k \in StoredKeys, NEW n \in Nat \ {0}, n = 1 \/ n <= ListLength(k)
  PROVE  /\ n + 1 > ListLength(k) => ReadBefore(k, n) \cup {Place(k, n)} = ReadThrough(k)
         /\ n + 1 <= ListLength(k) => ReadBefore(k, n) \cup {Place(k, n)} = ReadBefore(k, n + 1)
<1>. DEFINE L == ListLength(k)
            Listed(m) == {<<k, j>> : j \in 1 .. m}
            below == {r \in StoredKeys : r < k}
            lower == UNION {Reader!ValuesOf(j) : j \in below}
            own == Reader!ValuesOf(k)
<1>1. L \in Nat /\ own = IF L = 0 THEN {<<k, Unspecified>>} ELSE Listed(L)
  BY ValuesOfKey
<1>2. ReadThrough(k) = lower \cup own
  <2>1. \A r \in StoredKeys : r <= k <=> r < k \/ r = k
    BY DEF StoredKeys
  <2>2. {r \in StoredKeys : r <= k} = below \cup {k}
    BY <2>1
  <2>3. \A y : y \in ReadThrough(k) <=> \E j \in below \cup {k} : y \in Reader!ValuesOf(j)
    BY <2>2 DEF ReadThrough
  <2>4. \A y : y \in lower <=> \E j \in below : y \in Reader!ValuesOf(j)
    OBVIOUS
  <2>. HIDE DEF below, lower
  <2>5. \A y : y \in ReadThrough(k) <=> y \in lower \/ y \in own
    BY <2>3, <2>4
  <2>. QED
    BY <2>5
<1>3. Place(k, n) = <<k, IF n <= L THEN n ELSE Unspecified>>
  BY DEF Place
<1>4. \A m : ReadBefore(k, m) = lower \cup Listed(m - 1)
  BY Zenon DEF ReadBefore
<1>5. ReadBefore(k, n + 1) = lower \cup Listed(n)
  <2>1. n + 1 - 1 = n
    OBVIOUS
  <2>. HIDE DEF lower, Listed
  <2>. QED
    BY <1>4, <2>1
<1>6. n = 1 \/ n <= L
  OBVIOUS
<1>7. Listed(n) = Listed(n - 1) \cup {<<k, n>>}
  OBVIOUS
<1>8. n = 1 => Listed(n - 1) = {}
  OBVIOUS
<1>. HIDE DEF L, Listed, lower, own
<1>9. n + 1 <= L => ReadBefore(k, n) \cup {Place(k, n)} = ReadBefore(k, n + 1)
  BY <1>1, <1>3, <1>4, <1>5, <1>7
<1>10. CASE n + 1 > L
  <2>1. CASE L = 0
    <3>1. n = 1 /\ Place(k, n) = <<k, Unspecified>>
      BY <1>3, <1>6, <2>1
    <3>. QED
      BY <1>1, <1>2, <1>4, <1>8, <1>9, <2>1, <3>1 DEF L
  <2>2. CASE L # 0
    <3>1. n = L
      BY <1>1, <1>6, <1>10, <2>2
    <3>2. Place(k, n) = <<k, n>>
      BY <1>3, <3>1
    <3>3. ReadBefore(k, n) \cup {Place(k, n)} = lower \cup Listed(n)
      BY <1>4, <1>7, <3>2
    <3>4. own = Listed(n)
      BY <1>1, <2>2, <3>1
    <3>. QED
      BY <1>2, <1>9, <3>3, <3>4 DEF L
  <2>. QED
    BY <2>1, <2>2
<1>. QED
  BY <1>1, <1>9, <1>10 DEF L

(* A value that is read comes after all that were read before it. *)
LEMMA PlaceIsLast ==
  ASSUME TypeOK, NEW k \in StoredKeys, NEW n \in Nat \ {0}, n = 1 \/ n <= ListLength(k)
  PROVE  /\ Place(k, n) \in Nat \X (Nat \cup {Unspecified})
         /\ \A y \in ReadBefore(k, n) : Reader!Before(y, Place(k, n))
<1>1. ListLength(k) \in Nat /\ k \in Nat
  BY ValuesOfKey
<1>2. Place(k, n)[1] = k /\ (n <= ListLength(k) => Place(k, n)[2] = n)
  BY DEF Place
<1>3. ASSUME NEW j \in StoredKeys, j < k, NEW y \in Reader!ValuesOf(j) PROVE y[1] = j
  <2>1. Reader!ValuesOf(j) = IF ListLength(j) = 0 THEN {<<j, Unspecified>>}
                             ELSE {<<j, i>> : i \in 1 .. ListLength(j)}
    BY ValuesOfKey
  <2>. QED
    BY <1>3, <2>1
<1>4. ASSUME NEW y \in ReadBefore(k, n) PROVE Reader!Before(y, Place(k, n))
  <2>1. CASE \E j \in StoredKeys : j < k /\ y \in Reader!ValuesOf(j)
    BY <1>2, <1>3, <2>1 DEF Reader!Before
  <2>2. CASE \E j \in 1 .. n - 1 : y = <<k, j>>
    <3>1. PICK j \in 1 .. n - 1 : y = <<k, j>>
      BY <2>2
    <3>2. j < n /\ n <= ListLength(k)
      BY <3>1, <1>1
    <3>. QED
      BY <1>2, <3>1, <3>2 DEF Reader!Before
  <2>. QED
    BY <2>1, <2>2 DEF ReadBefore
<1>. QED
  BY <1>1, <1>4 DEF Place

LEMMA AppendRead ==
  ASSUME NEW S, NEW s \in Reader!Seq(S), NEW x \in S
  PROVE  LET t == Reader!Append(s, x)
         IN  /\ t \in Reader!Seq(S)
             /\ ValueRead(t) = ValueRead(s) \cup {x}
             /\ \A i, j \in DOMAIN t :
                  i < j => /\ i \in DOMAIN s /\ t[i] = s[i]
                           /\ (j \in DOMAIN s /\ t[j] = s[j]) \/ t[j] = x
<1>. DEFINE t == Reader!Append(s, x)
            m == Reader!Len(s)
<1>1. /\ t \in Reader!Seq(S) /\ m \in Nat
      /\ DOMAIN s = 1 .. m /\ DOMAIN t = 1 .. m + 1
      /\ \A i \in 1 .. m : t[i] = s[i]
      /\ t[m + 1] = x
  OBVIOUS
<1>. HIDE DEF t, m
<1>2. \A i \in DOMAIN t : i \in DOMAIN s \/ i = m + 1
  BY <1>1
<1>3. ValueRead(t) = ValueRead(s) \cup {x}
  <2>1. m + 1 \in DOMAIN t /\ DOMAIN s \subseteq DOMAIN t
    BY <1>1
  <2>. QED
    BY <1>1, <1>2, <2>1 DEF ValueRead
<1>4. \A i, j \in DOMAIN t : i < j => i \in DOMAIN s
  BY <1>1
<1>. QED
  BY <1>1, <1>2, <1>3, <1>4 DEF t

LEMMA StoreStays ==
  ASSUME BaseInv, phase = "done", [Next]_vars
  PROVE  phase' = phase /\ store' = store /\ rows' = rows
<1>. USE DEF BaseInv, PhaseInv
<1>1. ASSUME NEW w \in Workers PROVE ~MapStep(w) /\ ~ReduceStep(w)
  <2>1. pc[w] \notin MapLabels /\ pc[w] \notin ReduceLabels
    OBVIOUS
  <2>2. ~MapStep(w)
    BY <2>1 DEF MapStep, MapLabels, LockKeys, NewKeyThrows, ReadSequence, SetupKey, RunMapTask,
       MapTaskThrows, LockStore, TestEmpty, SwapIn, InsertInto, InsertThrows, FinishMerge,
       RecordMapTime, MapTimesThrows
  <2>3. ~ReduceStep(w)
    BY <2>1 DEF ReduceStep, ReduceLabels, LockPartition, ReadPartition, IncrPartition, SwapOut,
       ReduceKey, ReduceThrows, FinishPartition, RecordReduceTime, ReduceTimesThrows
  <2>. QED
    BY <2>2, <2>3
<1>2. ~MainStep
  BY DEF MainStep, JoinMapThreads, StartShuffle, NextRound, JoinShuffleThreads,
     JoinReduceThreads, Collate, Return, InnerLoopEnded
<1>3. UNCHANGED vars
  BY <1>1, <1>2 DEF Next, Terminated
<1>. QED
  BY <1>3 DEF vars

LEMMA ReadFrame ==
  ASSUME store' = store, rows' = rows
  PROVE  /\ StoredKeys' = StoredKeys
         /\ AllValues' = AllValues
         /\ \A k : ListLength(k)' = ListLength(k) /\ PlacesAfter(k)' = PlacesAfter(k)
         /\ \A k, n : Place(k, n)' = Place(k, n) /\ ReadBefore(k, n)' = ReadBefore(k, n)
<1>1. StoredKeys' = StoredKeys
  BY DEF StoredKeys
<1>2. \A k : ListLength(k)' = ListLength(k)
  BY DEF ListLength, MapThenSumSet, MapThenFoldSet
<1>3. ResultStore' = ResultStore
  BY <1>2 DEF ResultStore
<1>4. \A k : PlacesAfter(k)' = PlacesAfter(k)
  BY <1>3 DEF PlacesAfter, Reader!NextKey
<1>5. \A k : Reader!ValuesOf(k)' = Reader!ValuesOf(k)
  BY <1>3 DEF Reader!ValuesOf, Reader!Length
<1>6. \A k, n : Place(k, n)' = Place(k, n)
  BY <1>2 DEF Place
<1>7. \A k, n : ReadBefore(k, n)' = ReadBefore(k, n)
  BY <1>1, <1>5 DEF ReadBefore
<1>8. AllValues' = AllValues
  BY <1>1, <1>5 DEF AllValues
<1>. QED
  BY <1>1, <1>2, <1>4, <1>6, <1>7, <1>8

(* What an action of the caller leaves behind, with the store as it was. *)
ReadAfter ==
  /\ reading' \in {"read", "increment", "ended"}
  /\ results' \in Reader!Seq(Nat \X (Nat \cup {Unspecified}))
  /\ reading' \in {"read", "increment"} => \E k, n :
       /\ AtPlace(k, n, iterators', current', value')
       /\ ValueRead(results') =
            ReadBefore(k, n) \cup (IF reading' = "read" THEN {} ELSE {Place(k, n)})
  /\ reading' = "ended" => ValueRead(results') = AllValues
  /\ \A i, j \in DOMAIN results' : i < j => Reader!Before(results'[i], results'[j])

LEMMA ArrivalRead ==
  ASSUME TypeOK, ReadInv, NEW k \in Int, iterators' = PlacesAfter(k),
         Reader!set_current(iterators'), results' = results, ValueRead(results) = ReadThrough(k)
  PROVE  ReadAfter
<1>1. CASE reading' = "ended" /\ ReadThrough(k) = AllValues
  BY <1>1 DEF ReadAfter, ReadInv
<1>2. CASE /\ reading' = "read"
           /\ \E x : /\ AtPlace(x, 1, iterators', current', value')
                     /\ ReadBefore(x, 1) = ReadThrough(k)
  BY <1>2 DEF ReadAfter, ReadInv
<1>. QED
  BY <1>1, <1>2, Arrival

LEMMA BeginReads ==
  ASSUME TypeOK, ReadInv, Reader!Begin
  PROVE  ReadAfter
<1>1. /\ reading = "begin" /\ results' = results
      /\ iterators' = [p \in Partitions |-> Reader!NextKey(p, -1)]
      /\ Reader!set_current(iterators')
  BY DEF Reader!Begin, Reader!Partitions, Partitions
<1>2. iterators' = PlacesAfter(-1)
  BY <1>1 DEF PlacesAfter
<1>3. ReadThrough(-1) = {}
  <2>1. \A r \in StoredKeys : ~(r <= -1)
    BY DEF StoredKeys
  <2>. QED
    BY <2>1 DEF ReadThrough
<1>4. ValueRead(results) = {}
  BY <1>1 DEF ReadInv, ValueRead
<1>. QED
  BY <1>1, <1>2, <1>3, <1>4, ArrivalRead

LEMMA DereferenceReads ==
  ASSUME TypeOK, ReadInv, Reader!Dereference
  PROVE  ReadAfter
<1>1. /\ reading = "read" /\ reading' = "increment"
      /\ results' = Reader!Append(results, value)
      /\ iterators' = iterators /\ current' = current /\ value' = value
  BY DEF Reader!Dereference
<1>2. PICK k, n : AtPlace(k, n, iterators, current, value) /\ ValueRead(results) = ReadBefore(k, n)
  BY <1>1 DEF ReadInv
<1>3. /\ k \in StoredKeys /\ n \in Nat \ {0} /\ (n = 1 \/ n <= ListLength(k))
      /\ value = Place(k, n)
  BY <1>2 DEF AtPlace
<1>4. /\ value \in Nat \X (Nat \cup {Unspecified})
      /\ \A i \in DOMAIN results : Reader!Before(results[i], value)
  BY <1>2, <1>3, PlaceIsLast DEF ValueRead
<1>. DEFINE S == Nat \X (Nat \cup {Unspecified})
<1>5. results \in Reader!Seq(S) /\ value \in S
  BY <1>4 DEF ReadInv
<1>. HIDE DEF S
<1>6. /\ results' \in Reader!Seq(S)
      /\ ValueRead(results') = ValueRead(results) \cup {value}
      /\ \A i, j \in DOMAIN results' :
           i < j => /\ i \in DOMAIN results /\ results'[i] = results[i]
                    /\ (j \in DOMAIN results /\ results'[j] = results[j]) \/ results'[j] = value
  BY <1>1, <1>5, AppendRead
<1>7. \A i, j \in DOMAIN results' : i < j => Reader!Before(results'[i], results'[j])
  <2>1. \A i, j \in DOMAIN results : i < j => Reader!Before(results[i], results[j])
    BY DEF ReadInv
  <2>. QED
    BY <1>4, <1>6, <2>1
<1>8. ValueRead(results') = ReadBefore(k, n) \cup {Place(k, n)}
  BY <1>2, <1>3, <1>6
<1>. QED
  BY <1>1, <1>2, <1>6, <1>7, <1>8 DEF ReadAfter, S

LEMMA IncrementReads ==
  ASSUME TypeOK, ReadInv, Reader!Increment
  PROVE  ReadAfter
<1>1. reading = "increment" /\ results' = results
  BY DEF Reader!Increment
<1>2. PICK k, n : /\ AtPlace(k, n, iterators, current, value)
                  /\ ValueRead(results) = ReadBefore(k, n) \cup {Place(k, n)}
  BY <1>1 DEF ReadInv
<1>3. /\ k \in StoredKeys /\ n \in Nat \ {0} /\ (n = 1 \/ n <= ListLength(k))
      /\ iterators = PlacesAfter(k - 1)
      /\ current = [first |-> Part[k], second |-> n]
  BY <1>2 DEF AtPlace
<1>4. k \in Nat /\ ListLength(k) \in Nat
  BY <1>3, ValuesOfKey
<1>5. Part[k] \in Partitions /\ ResultStore[Part[k]][k] = ListLength(k)
  BY <1>3, StoreShape
<1>6. iterators[Part[k]] = k
  <2>1. IsNextStored(k, k - 1)
    BY <1>3, <1>4 DEF IsNextStored, KeysAfter, StoredKeys
  <2>. QED
    BY <1>3, <2>1, SmallestIsNext
<1>7. CASE n + 1 > ListLength(k)
  <2>1. /\ iterators' = [iterators EXCEPT ![Part[k]] = Reader!NextKey(Part[k], k)]
        /\ Reader!set_current(iterators')
    BY <1>3, <1>5, <1>6, <1>7 DEF Reader!Increment
  <2>2. iterators' = PlacesAfter(k)
    BY <1>3, <2>1, PlacesAdvance
  <2>3. ValueRead(results) = ReadThrough(k)
    BY <1>2, <1>3, <1>7, ListRead
  <2>. QED
    BY <1>1, <1>4, <2>1, <2>2, <2>3, ArrivalRead
<1>8. CASE n + 1 <= ListLength(k)
  <2>1. ~(n + 1 > ListLength(k))
    BY <1>3, <1>4, <1>8
  <2>2. /\ current' = [current EXCEPT !.second = n + 1]
        /\ value' = Reader!ValueAt(k, ListLength(k), n + 1)
        /\ reading' = "read" /\ iterators' = iterators
    BY <1>3, <1>5, <1>6, <2>1 DEF Reader!Increment
  <2>3. AtPlace(k, n + 1, iterators', current', value')
    BY <1>3, <1>8, <2>2 DEF AtPlace, Reader!ValueAt, Place
  <2>4. ValueRead(results) = ReadBefore(k, n + 1)
    BY <1>2, <1>3, <1>8, ListRead
  <2>. QED
    BY <1>1, <2>2, <2>3, <2>4 DEF ReadAfter, ReadInv
<1>. QED
  BY <1>3, <1>4, <1>7, <1>8

LEMMA ReadInit == JobInit => ReadInv
<1>. SUFFICES ASSUME JobInit PROVE ReadInv
  OBVIOUS
<1>1. reading = "begin" /\ results = <<>> /\ phase = "map"
  BY DEF JobInit, Reader!Init, Init
<1>. QED
  BY <1>1 DEF ReadInv

LEMMA ReadNext ==
  BaseInv /\ ReadInv /\ [JobNext]_<<vars, readVars>> => ReadInv'
<1>. SUFFICES ASSUME BaseInv, ReadInv, [JobNext]_<<vars, readVars>> PROVE ReadInv'
  OBVIOUS
<1>1. [Next]_vars
  BY DEF JobNext, Read
<1>2. CASE phase # "done"
  <2>1. UNCHANGED readVars
    BY <1>2 DEF JobNext, Read
  <2>. QED
    BY <1>2, <2>1 DEF ReadInv, readVars
<1>3. CASE phase = "done"
  <2>1. phase' = "done" /\ store' = store /\ rows' = rows
    BY <1>1, <1>3, StoreStays
  <2>2. /\ StoredKeys' = StoredKeys /\ AllValues' = AllValues
        /\ \A k : ListLength(k)' = ListLength(k) /\ PlacesAfter(k)' = PlacesAfter(k)
        /\ \A k, n : Place(k, n)' = Place(k, n) /\ ReadBefore(k, n)' = ReadBefore(k, n)
    BY <2>1, ReadFrame
  <2>3. CASE UNCHANGED readVars
    <3>1. /\ reading' = reading /\ results' = results
          /\ iterators' = iterators /\ current' = current /\ value' = value
      BY <2>3 DEF readVars
    <3>2. ValueRead(results)' = ValueRead(results)
      BY <3>1 DEF ValueRead
    <3>3. \A k, n : AtPlace(k, n, iterators, current, value)' = AtPlace(k, n, iterators, current, value)
      BY <2>2, <3>1 DEF AtPlace
    <3>. QED
      BY <1>3, <2>1, <2>2, <3>1, <3>2, <3>3 DEF ReadInv
  <2>4. CASE Reader!Next
    <3>1. ReadAfter
      BY <2>4, BeginReads, DereferenceReads, IncrementReads DEF Reader!Next, BaseInv, TypeInv
    <3>. QED
      BY <2>1, <2>2, <3>1 DEF ReadAfter, ReadInv, AtPlace, ValueRead
  <2>. QED
    BY <2>3, <2>4 DEF JobNext, Read
<1>. QED
  BY <1>2, <1>3

(* The job with its caller is a run of the job. *)
LEMMA JobIsRun == JobSpec => Spec
<1>1. JobInit => Init
  BY DEF JobInit
<1>2. [JobNext]_<<vars, readVars>> => [Next]_vars
  BY DEF JobNext, Read
<1>. QED
  BY <1>1, <1>2, PTL DEF JobSpec, Spec

(* When the iterator equals end_results(), the caller has read the values of  *)
(* all lists of all partitions, once each, by ascending key: also when an     *)
(* exception left a list empty or not reduced.                                *)
THEOREM AllReadHolds == JobSpec => []AllRead
<1>. DEFINE IInv == BaseInv /\ ReadInv
<1>1. JobInit => IInv
  BY BaseInit, ReadInit DEF JobInit
<1>2. IInv /\ [JobNext]_<<vars, readVars>> => IInv'
  <2>1. [JobNext]_<<vars, readVars>> => [Next]_vars
    BY DEF JobNext, Read
  <2>. QED
    BY <2>1, BaseNext, ReadNext
<1>3. IInv => AllRead
  <2>1. Reader!AllKeys = StoredKeys
    BY StoreShape
  <2>2. Reader!Range(results) = ValueRead(results)
    BY DEF Reader!Range, ValueRead
  <2>. QED
    BY <2>1, <2>2 DEF ReadInv, AllValues, AllRead, Reader!AllRead
<1>. QED
  BY <1>1, <1>2, <1>3, PTL DEF JobSpec
================================================================================
