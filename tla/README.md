# Verification of MPI-MapReduce-PageRank

The repository computes the PageRank of a web graph four times: serially, on a
C++ map-reduce library with a thread pool, on a small MPI library of its own
and on the mrmpi library.  The modules here model these programs and the
libraries below them.  The questions are those a test on one machine hardly
answers: do the threads of a job hand out, merge and reduce each key exactly
once; what is left of a result when something throws in the middle; do all the
implementations compute the same iteration; do they end; does a library that
pages its pairs to disk and sends them around always have the pairs its manual
promises.

## 1. The system

    file of edges -> Graph (toList, fromList) -> hyperlink column
                                     |
        +-------------+--------------+---------------+
     Serial          C++          MPI Self        MPI Base
     PageRank     Calculator     Calculator      Calculator
        |         | two jobs      | Job::run      | map, collate, reduce,
      (loop)      | per iteration | per process   | gather, sort, broadcast
                  v               v               v
             mapreduce::job    pipe of tasks   mrmpi library
             cpu_parallel      inside one      (MPI messages,
             in_memory         process         paged stores)

| component | state it keeps | operations | what is hard about it | correct when |
|---|---|---|---|---|
| `Graph.h`, `Utility.cpp` | adjacency lists, columns | read a file, hyperlink column, norm | dangling vertices, repeated edges, labels without edges | every label up to the largest is a vertex |
| `Serial/PageRank.cpp` | two columns, factor, norm | one loop | termination, mass | multiplies with the Google matrix and ends near its fixed point |
| `C++/Calculator.cpp`, `C++/PageRank.cpp` | the two columns and a shared datasource with a sequence counter | `refresh`, two jobs, `transform`, norm | resets between jobs, results taken without a look at the error counters | equal to the serial loop |
| `job.hpp`, `cpu_parallel.hpp`, `in_memory.hpp` | mutexes, the datasource's sequence, the store, counters per thread | claim a key, map, merge, shuffle, reduce, collate | threads, exceptions at every allocation | each key mapped, merged and reduced once; losses announced |
| `in_memory` result iterator | one position per partition | `begin`, `increment` | order over partitions | all results, by ascending key |
| `sequential.hpp` | - | the three phases on one thread | gives up at the first failed map task | the contract of a job |
| `local_disk.hpp`, `mergesort.hpp` | a map of partitions to files, temporary files | write, sort, merge, reduce | a shared map changed by concurrent reducers, more files than can be open, descriptors that are never closed | the contract of a job, no file left behind |
| `datasource.hpp` | directory position, the current file, offsets | next file, next segment | key and data are two calls under two locks; a look past the end of the mapping | segments divide each file at line ends |
| `MPI Self` | per process: columns; shared: the output file | share of the keys, local job, print | processes with different columns, one file | equal to the serial loop |
| `MPI Base` | per process: column, factor, norm | two map-reduces per iteration | column replaced in place, one norm per process | equal to the serial loop, all processes leave the loop together |
| mrmpi page pool (`mem_request`, `mem_cleanup`) | pages with tags | lend, take back, give back to the system | runs of pages, tags that outlive a call | no page lent twice, none kept without need |
| mrmpi `keyvalue`, `keymultivalue`, `spool` | pages in memory and on disk, files | add, append, complete, request_page, convert | page boundaries, the same page in memory and on file, keys and values that outgrow memory | what is added is read back, grouped once by key |
| mrmpi `map_tasks`, `aggregate`, `gather`, `broadcast`, `collate`, `scrunch`, `irregular` | message buffers | MPI collectives and handshakes | retries, message order, sends that wait or not | no pair lost or doubled, every call returns |
| mrmpi `map` over files | files, tasks per file | list files, divide them, read a chunk | rounding, separators at chunk borders | chunks divide each file |
| OINK | named and temporary objects, input and output descriptors | MR commands, named commands, cleanup | names and objects that change owners | a name keeps its object, temporaries go |

Components interact by calls (`Calculator` -> `job::run` -> schedule policy ->
`run_map_task` and `run_reduce_task` -> store), by callbacks (the datasource's
`setup_key` and `get_data`, the tasks' `emit_intermediate` and `emit`), by
memory shared under mutexes, by MPI messages (mrmpi) and by a file that all
processes write.  `PROJECT.json` lists each component and each hazard with the
line where it bites.

## 2. Modules

| module | models | state and actions |
|---|---|---|
| `CpuParallel` | one `job::run` under `cpu_parallel` with `in_memory` | one `pc` per thread; `m1`, `m2` and the reducers' mutex as holders; `store` is `intermediates_`, `taken` the map a reducer swapped out; an action per step between two points at which another thread can act, and one per place where an allocation may throw |
| `JobContract` | what `Calculator` relies on in `job::run` | `Report` (an error line on `std::cerr`) and `Finish` |
| `WebGraph` | `Graph.h`, the columns of `Utility.cpp` and their arithmetic on `double` | no state; exact fractions, see section 4 |
| `SerialPageRank` | `Serial/PageRank.cpp` | an action per statement of the loop |
| `CppPageRank` | `C++/Calculator.cpp`, `C++/PageRank.cpp` | the driver's statements; its two jobs are instances of `JobContract` |
| `Workload` | `Job::getProcessLoad` | no state |
| `MpiSelf` | the processes of `MPI Self` | `Size`, which `Init` picks from `Sizes` and nothing changes; the loop of each process, its prints to the shared file, mpirun's kill |
| `MpiBase` | the processes of `MPI Base` | `pc`, `pageRanks`, `factor`, `norm` and the `kv` and `kmv` of each process; an action per library call, see below |
| `PageRankFile` | the output file under mpirun | `Open` truncates, `WriteLine` writes a line at the process's own position |
| `PowerIteration` | what all four programs promise | the column times the Google matrix, until a step moves it by no more than TOL |
| `ResultIterator` | `in_memory::const_result_iterator` | the positions in the partitions' maps, `current_`, `value_`; `Begin`, `Dereference`, `Increment` |
| `JobResults` | `CpuParallel` and then `ResultIterator` on the store it leaves | the iterator's actions once the job is `done` |
| `DirectorySource` | `datasource::directory_iterator` and its memory-mapped `file_handler` | a record `src`: `next`, `current` file, `opened` files, `offset`s |
| `RecordFiles` | the record files of `local_disk.hpp`, `mergesort.hpp` | no state: sorting, merging, grouping of files as sequences |
| `DiskJob` | a job that counts words, with `DirectorySource`, `local_disk` and both policies; `held` counts the descriptors that mkstemp leaves open | `phase`, threads `thr`, `store` (`intermediate_files_`), temporary files `disk`, result files `output` |
| `PageMemory` | the page pool of a MapReduce object | a record: `use` and `count` of each page, `nextTag`, `hiwater` |
| `KeyValue`, `KeyMultiValue`, `ConvertKmv` | the stores `keyvalue.cpp` (with the spools of `spool.cpp`) and `keymultivalue.cpp`, and its `convert` | operators on a record `w`, the process: pools, pages (`ram`), stores with their files, disk space |
| `MapReduceObject` | what every call of an object does first and last, and the sorts (`sort_kv`, `merge`) | operators on `w` |
| `KvStore`, `KmvStore` | the calls of objects on one process | an action per call; a conversion is taken partition by partition and set by set |
| `MpiProcs` | point-to-point messages | `net`: messages from p to q, in order |
| `Irregular` | `irregular.cpp` | no state |
| `MrCollectives` | the collective calls on all processes | `r[p]`, the place of process p in the call; an action per message sent or received and per MPI collective |
| `DistributedPairs` | what the manual says of each collective | `data`: the pairs of every process, changed in one step |
| `MapFiles` | `map` over files: `findfiles`, `map_chunks`, `map_file_wrapper` | `mstage`; the passes of `map_chunks`, one action each; a task's reads |
| `Oink` | OINK's objects and the commands that use them | the array `mrwrap`, descriptors, the line being executed |
| `WebGraph_proofs` | - | lemmas on numbers, fractions, sums and columns, and the blocks of `Workload` |
| `CpuParallel_proofs`, `SerialPageRank_proofs`, `CppPageRank_proofs`, `MpiSelf_proofs`, `MpiBase_proofs` | - | theorems on the module of that name; `CpuParallel_proofs` has those on `JobResults` too |
| `Stores_proofs` | - | theorems on `PageMemory` and `DiskJob` |
| `Oink_proofs` | - | theorems on `Oink` and the `MapFiles` below it |
| `MCGraphs`, `MCJobResults`, `MCSerialPageRank`, `MCCppPageRank`, `MCMpiSelf`, `MCMpiBase`, `MCDiskJob`, `MCKmvStore`, `MCMrCollectives`, `MCOink` | - | the instances for TLC |

How they compose:

    DiskJob ------implements--+
                              v
    CpuParallel --implements--> JobContract <--uses-- CppPageRank
                                                          | implements
                                                          v
                        MpiSelf --implements------> SerialPageRank
                           |    (one process)             | implements
                           | uses                         v
                      PageRankFile <--uses-- MpiBase --> PowerIteration
                                                   implements,
                                                   every process

    PageMemory <- KeyValue <- KeyMultiValue <- MapReduceObject, ConvertKmv

    MapReduceObject <- KvStore
    KvStore, ConvertKmv <- KmvStore                             (one process)
    MapReduceObject, ConvertKmv, Irregular (which has MpiProcs)
                    <- MrCollectives --implements--> DistributedPairs
    MapFiles <- Oink

A job under the thread pool implements `JobContract` (run `job_results`), and so does
a job on disk under either policy (run `disk_job`).  That job stands for one whose segments are
strings: `local_disk` with the pointer and length of the default datasource does not compile, because its
file's key type is taken from `MapTask::value_type` (`local_disk.hpp:346`).
`CppPageRank` knows of its jobs only that contract, and with jobs that report no
error implements `SerialPageRank` (run `cpp_pagerank`); so does `MpiSelf` with
one process (run `mpi_self`).  `SerialPageRank` implements `PowerIteration`
(run `serial_pagerank`), and so does each process of `MpiBase` (run `mpi_base`).
`ResultIterator` justifies the operator `Position` with which `CppPageRank` assigns
results to vertices.  `MpiBase` takes each library call by its effect; `MrCollectives`
takes the same calls message by message and page by page and implements
`DistributedPairs`, the effects (run `mr_collectives`).

### CpuParallel and the code

| code | actions |
|---|---|
| `run_next_map_task`: `m1.lock`, `get_next_map_key`, `m1.unlock` | `LockKeys`, `NewKeyThrows`, `ReadSequence`, `SetupKey` (the unguarded `key=sequence++` is a read and a write) |
| `job::run_map_task` | `RunMapTask`, `MapTaskThrows`, `LockStore`, `FinishMerge`, `RecordMapTime`, `MapTimesThrows` |
| `in_memory::merge_from` | per partition `TestEmpty`, then `SwapIn` or `InsertInto`; `InsertThrows` after part of a partition |
| `map`, `intermediate`, `reduce`, `collate_results` | `JoinMapThreads`; `StartShuffle`, `InnerLoopEnded`, `NextRound`, `JoinShuffleThreads`; `JoinReduceThreads`; `Collate`, `Return` |
| `run_next_reduce_task` | `LockPartition`, `ReadPartition`, `IncrPartition` |
| `job::run_reduce_task`, `in_memory::reduce` | `SwapOut`, `ReduceKey`, `ReduceThrows`, `FinishPartition`, `RecordReduceTime`, `ReduceTimesThrows` |

A value is the map key that emitted it and a list of values a bag, because the
order of a list only decides the rounding of its sum.  `Faults` names the places
where an allocation may fail: `new_key` (the key under `m1`), `map`
(inside the map task), `merge`, `reduce` (inside the try blocks), `map_times` and
`reduce_times` (the `push_back` behind them, outside any try of the job).

### MpiBase and the code

`PageRank::calculatePageRank` is the same sequence of library calls on every
process.  A library call ends with an `MPI_Allreduce`, so no process is more
than one call ahead of another.  A call is therefore a local action that each
process takes by itself (what its callbacks do), a joint action that all take
together (what is exchanged), or both in turn:

| code | actions |
|---|---|
| `MPI_Barrier` | `Barrier` |
| `map(N, ...)` | `Map` (the chunk of `map_tasks`, and the callback for each key) |
| `collate` | `Collate` (`aggregate` and `convert`) |
| `reduce` | `Reduce` |
| `gather(HOME)`, `sort_keys`, `broadcast(ROOT)` | `Gather`, `SortKeys`, `Broadcast` |
| `map(&mapreduce, ...)` | `TakeFactor`, `TakePageRanks`; `EndTake` is its `MPI_Allreduce` |
| `while(norm>TOL)`, `refresh` | `Test` |
| `printPageRank` | `OpenFile`, `PrintLine`, `CloseFile` |

`job` says which of the two map-reduces of an iteration the calls belong to.

### MrCollectives and the code

| code (`mapreduce.cpp`) | actions |
|---|---|
| `map_tasks`, mapstyles 0, 1, 2 | `MapBegin`, `DoTask`; of the master `Deal`, `Serve`, `ServeEnd` |
| `aggregate` with `Irregular::setup`, `exchange` | `AggBegin`, `AggCount`, `AggLoad`, `AggSetup` (with the scale-back of the pages), `AggAlltoall` or `AggBarrier`, `AggSend`, `AggWait`; `AggAdvance`, `AggSwap` |
| `broadcast` | `BcBegin`, `BcCount`, `BcPage` |
| `gather`, `scrunch` | `GatherBegin`; of the receivers `LoAsk`, `LoPage`, ... and of the senders `Hi...`, one for each `MPI_Send` and `MPI_Recv` |
| `collate`, `scrunch` behind the exchange | `Group` (`convert` or `collapse` on each process), `Grouped` |

An action of one process sends or takes one message; `MPI_Allreduce`, `MPI_Bcast`,
`MPI_Barrier` and `MPI_Alltoallv` are actions of all.  `mode.eager` says whether a send
returns at once or waits for its receive; both are allowed by MPI, and both are checked.

### KmvStore and the code

An action is a library call of one object: `Map`, `MapMr`, `MapSelf`, `Add`, `Copy`,
`Open`, `Close`, `Scan`, `PrintKv`, `Sort`, `SetOutOfCore`, `Destroy` in `KvStore`;
`Clone`, `Collapse`, `StartConversion`, `Reduce`, `ScanKmv`, `PrintKmv`, `CopyOfKmv`,
`SortMulti` in `KmvStore`.  `KeyMultiValue::convert` is a loop over partitions of the pairs
and over sets of the unique keys; its steps `ConvertPartition` (`kv2unique`),
`ConvertSets` (`unique2kmv`), `ConvertSet` (`kmv_fill`) and the end of a partition are
actions, so that invariants hold in the middle of a conversion as well.  Below the
actions the functions of the code are operators on `w` with the code's names and order:
`RequestPage`, `AddPairs`, `CompleteStore`, `AppendStore` of `keyvalue.cpp`, `SpoolAdd`
of `spool.cpp`, `MemCleanup` of `mapreduce.cpp`, `KvToUnique`, `FillSet` of
`keymultivalue.cpp`.  A page is a sequence of pairs whose sizes add up to at most
`PageSize`; a position in it is a number of pairs.

### DiskJob and the code

| code | actions |
|---|---|
| `datasource.hpp` `setup_key` and `get_data`, each under its own lock | `NextKey`; `GetData` (end of the segment, failing open, the assertion), `GetNothing` (the entry of a file that could not be mapped), `Overrun` (the look past the mapping) |
| `job::run_map_task` with `local_disk::merge_from` | `MapTask`, `MapThrows` (the files of the task go with its own store); `OutOfFiles`, `CombineFails` (no descriptor left for a stream of `insert`, or in `combine`) |
| `cpu_parallel` and `sequential`, `map` | `GivesUp` (the sequential policy's end at a failed task), `JoinMaps` |
| `intermediate`, `local_disk::combine`, `file_merger` | `Shuffle` for a round of as many files as can be opened (`Limits`), `JoinShuffles` |
| `run_next_reduce_task`, `local_disk::reduce` | `Claim`, `Find` (the assertion on the partition's entry), `Erase` (the unlocked `std::map::erase`), `Crash` (what two of them may do), `Reduce`, `ReduceThrows`, `JoinReducers` |

### Oink and the code

| code | actions |
|---|---|
| `object.cpp` `add_input`, `input`, `create_mr`, `copy_mr`, `output`, `cleanup` | `AddInputs` (part of `CommandLine`), `ReadObject` and `ReadPaths`, `CreateMr`, `OwnMr`, `Output`, `EndCommand` |
| `mrmpi.cpp` `mr`, `delete`, `copy`, `map/file` and the like | `MrLine`, `DeleteLine`, `CopyLine`, `MapLine`, `FreeStrings` |
| `input.cpp`, `object.cpp` `set`, `input` | `SetLine`, `InputLine` |
| `degree_weight.cpp`, `histo.cpp`, `pagerank.cpp` | `Run`: the sequence of the actions above that the command takes |
| `mapreduce.cpp` `findfiles`, `bcastfiles`, `map_chunks`, `map_file_wrapper` | `MapCall`, `Find`, `HandOutFiles`, `MapWhole`; `SizeFiles`, `PlanTasks`, `GrowPass`, `ShrinkPass`, `FitDelta`; `MapChunk`, `MapReturn` in `MapFiles` |

## 3. Runs

| run | question | instance |
|---|---|---|
| `job_results` | With exceptions at every place: is each key claimed, merged and reduced once, is what is lost counted, does a run implement `JobContract`, when can it fail to end, and does the iterator then read all results? | the iteration job of a graph of two vertices: 2 keys, 2 threads, 4 partitions, any number of faults |
| `serial_pagerank` | Does the loop compute the Google matrix's iteration and return a stationary column? | every graph with at most 3 vertices and 5 edges |
| `cpp_pagerank` | Does the driver over two jobs implement the serial loop, and what does a failed job do to later iterations? | at most 4 edges, at most one failed job |
| `mpi_self` | Does the MPI Self program implement the serial loop with one process, are keys divided with two, and when does it crash? | at most 4 edges, 1 or 2 processes |
| `mpi_self_output` | Does the file hold the PageRank? (No.) | at most 3 edges, 2 processes |
| `mpi_base` | Does every process run the promised iteration, do all leave it together, and does the file hold the PageRank? | 3 processes, at most 3 edges, a hash that leaves process 0 without keys |
| `mpi_base_large` | Is the factor right however many vertices there are? (No.) | 2 processes, 2 values in a page |
| `disk_job` | Does a job on disk meet `JobContract` under either policy, what may its assertions be hit by, and is it tidy? | six directories of at most four files, segments of 2 characters, 1 or 3 cores, 12 or 22 descriptors, map and reduce tasks that throw |
| `mr_store` | Does an object hold what its calls put there, wherever its pages are? | programs of at most 4 calls on 2 objects, changes of `outofcore` among them, pages of 4 bytes, at most 6 pairs in an object |
| `mr_collectives` | Does each collective move the pairs as promised, and return? | each call with each of its arguments, 3 processes, 4 distributions of up to 7 pairs |
| `mr_broadcast` | Does a broadcast copy the root's pairs? (Not when they are several pages in memory and on file.) | as above |
| `oink` | Do named objects survive commands, does a map over files divide them, when does the interpreter crash? | scripts of 3 lines, 2 names, 2 processes, 10 files and directories |

What they show, where it is more than "no":

* A failed merge leaves some partitions of its key in the store.  The key is
  counted as an error and never retried, so nothing is doubled (`ExactlyOnce` and
  the contract's bound on lists), and whoever reads the counters can tell
  (`CountersAccount`).  No caller reads them: `Calculator::check` is never called.
* Allocation failure under `m1` (`cpu_parallel.hpp:24-26`) is the only way a job
  hangs (`EndsOrLeaks`).  Exceptions of `push_back` outside the try end a thread
  but not the job: the other threads go on, and when none is left the missing
  keys are missing without a count; only the error line tells (`ImplementsContract`).
* After whatever a job lost, the iterator's merge of the partitions yields all
  that is left (`AllRead`); a key with an empty list yields one result that is
  read beyond the list's end.
* `intermediate()` skips every `num_cpus_ + 1`-th partition.  With `in_memory` the
  shuffle does nothing, so results are right.  With `local_disk` the skipped
  partition has no merged file, and its reduce waits for it for ever:
  `Terminates` of `disk_job` has to leave these out, and `NoFilesLeft` says that
  no job ends unless all partitions are shuffled.
* A job that lost values damages the column, and the damage stays: the
  iteration keeps whatever mass the column has.  `CleanIteration` says no
  more is lost than that, and `Terminates` that the loop ends unless it stays in a
  job that reported an error, which is what `EndsOrLeaks` leaves open (`MayHang`).
  A key whose list was left empty has a result all the same
  (`in_memory.hpp:155`), so the results after it do not move up (`EmptyRow`).
* The formula at the end of `README.md` adds the factor outside the product with
  alpha; the four programs add it inside.
* MPI Self with two processes writes a file that is complete but not the PageRank.
* MPI Base does: its processes replace their columns pair by pair and each tests
  its own norm, but all take the same pairs in the same order, so the norms are
  equal and the loop's exits coincide (`LeaveTogether`); a process that truncates
  the file late writes the same lines again (`OutputIsPageRank`).  This rests on
  one vertex being reduced on one process only (`EachVertexOnce`), which is
  `aggregate`'s work.
* All values of the factor have one key.  When its multivalue outgrows a page of the
  library (64 MB by default: about 5.6 million vertices), `ReduceFactor` is called
  with `nvalues` 0, divides 0.0 by 0, and the loop ends after one iteration with
  a column of NaN (`FactorIsNumber` is violated).
* A job on disk is right about every word when it reports no error, whatever its
  segments and however its files are merged (`SegmentsDivide`, `MergesAll`,
  `ImplementsContract`).  What may stop it without an
  error line is listed by `AbortsOnlyIf`: two threads between the key of one file and the data
  of another (`datasource.hpp:126`), a partition without a record (`local_disk.hpp:577`), the
  reducers' unlocked erase (`local_disk.hpp:601`), a file of whole pages whose last line has no
  end (`datasource.hpp:144` looks one character past the mapping), and descriptors that run
  out.  The last of these needs nothing unusual: `mkstemp` leaves a file open with every name it makes
  (`platform.hpp:85`), three of them for each fragment, so that a job with many tasks and partitions fails
  the assertion on the stream of `insert` (`local_disk.hpp:514`).
  After an error line more may happen (the shuffle of a partition whose only task threw).
  Two threads that hold the key of a file
  whose last segment is taken can bring that key back in turn for ever
  (`datasource.hpp:106-112`), so `Terminates` asks for one segment per file there.
* Stores hold what their calls put there (`ContentsKept`, `GroupsKept`,
  `WholeStore`), with one exception that contradicts the manual.  `outofcore` may be changed at any time
  (`doc/settings.html:249`), but a store of one page in memory is not on file: once
  `outofcore` is 1, the next scan or copy gives its page back as if it were
  (`keyvalue.cpp:120-127`), and the pairs are gone (`Gone`).  `ContentsKept` says that a store is
  lost in this way only: the object was told to go out of core while its store was in memory alone, and no
  call has written the store since (`exposed`).  During a conversion no pair is lost between a spool and its source
  (`NothingLost`), and spool files always leave the account (`DiskAccounted`).  Pages do not: a scan
  of multivalues keeps two and a sort of several pages one, for as long as the
  object lives (`PagesAccounted` counts them in `leaked`).
* The collectives implement their one-step promises (`ImplementsPairs`) with
  sends that wait and with sends that do not, and leave neither messages nor
  pages behind (`NothingLeft`).  `aggregate` returns (`Returns`) when no pair is
  larger than nine tenths of a process's share of what one process may receive at
  once; a larger one may be scaled back to no pair at all, again and again
  (`mapreduce.cpp:485-499`).
* `broadcast` receives each page in the page of the receiver's own store.  The
  second overwrites the first before it is written out (`BroadcastCopies` is violated).
  MPI Base broadcasts its ranks this way; up to a page of them is safe.
* `Object::cleanup` deletes from the array it walks over, and half of adjacent
  temporary objects survive (`LeftoverHalved`); named objects do not suffer
  (`NamesKept`).  Of the commands modelled, the interpreter crashes in
  (`CrashesOnlyIf`): a command of several inputs when the script set up the first
  (`object.cpp:426`), the free of a separator call's names (`mrmpi.cpp:189`), a map whose function is not known
  (`mrmpi.cpp:380-420` gives NULL, which nothing tests before it is called), and a map
  over no task (a division by zero, `mapreduce.cpp:1271`).  A map over files in chunks divides
  them at separators (`ChunksDivide`) and its planning ends when the files have
  as many characters as tasks were asked for (`MapEnds`); otherwise
  `mapreduce.cpp:1286` may loop for ever.

### Bounds

`MaxEdges`, `MaxVertex` bound the files: with three vertices and up to five
edges there are dangling vertices, vertices without edges at all, repeated edges
and loops, alone and together; the matrices of larger graphs are built from the
same cases.  `T` is the inverse of `TOL`.  `MaxFaults` bounds the failed jobs of
`CppPageRank`.  `MaxValues` is the page size of `MpiBase`, in values: 99 when no
multivalue should outgrow it, 2 when one should; `Owner` is the hash, for which the
instance puts two vertices on one process and none on another, the cases in which
`gather` moves several pairs and in which a process has nothing to reduce.  Three
processes are more than the vertices of the small graphs among the files, so that
`map_tasks` has empty chunks.

`job_results` has two threads of which each can die at each place, with a key that emits to two
partitions (a merge can be half done), a list of several values, two partitions without
a key, and one more partition than the shuffle's loops reach.

`disk_job`: `Segment` is two characters, so that there are files of several
segments, of one, of none, and a line longer than a segment; `MapPage` is five, the length of a file without a
final line end.  `OpenLimits` are 12 descriptors, which a job of several fragments uses up, and with which merges
take several rounds, and 22, with which a job can come to its end.  `Cpus` are 1, with which the shuffle's
loops leave out the second of the two partitions under the thread pool (the sequential policy shuffles both), and 3, which reaches
both and has more threads than partitions.  `TasksThrow` lets every task throw.  The
instance is at the limit of what TLC does in a few minutes (1.3 million states); the threaded half of `Terminates` is
decided there by one directory, of two files of one segment each.

`mr_store`: `PageSize`, `PairHead`, `MultiHead`, `ValueHead` are the sizes of a page, of the
header of a pair, of a multivalue and of each of its values: a pair takes between a third and all of
a page.  `MaxPage` 0 is no limit, as by default.  `MaxUnique` 2 (the entries of a page of unique keys),
`MinSpool` 2 (the least memory of a spool), `HashBits` 2 and `HashOf` (two keys that share
a bucket at first) let three keys make a partition split and split again, and a multivalue of
several blocks.  `OutOfCores` and `FreePages` are all values of these settings;
`Settings` are the values to which a running program changes `outofcore`, between any two calls.
`MaxPairs` and `MaxCalls` bound a program: four calls make, fill, convert and consume a
store, with the second object as source or copy.  `Strides` are the arguments of print.

`mr_collectives`: a process holds up to three pairs in up to three pages, or none; `IntMaxes` are
the values of INTMAX, one that every message meets and one that none does.  `WideBroadcast` allows a
broadcast of several pages, which only `mr_broadcast` does.  `MaxCalls` is 1: a
call leaves nothing but its store behind (`NothingLeft`), and the first states are all
distributions.  `ConvertSteps` bounds the partitions and sets of one conversion, and is
never reached.

`oink`: three lines let an object be made, used by a command, and used again;
`Texts`, `Names`, `Variables` have a name in use, a file, a file per rank, and lists of two; `MaxLines`
bounds the script.  The map lines have a chunk per character, chunks as long
as delta, more chunks than characters, a separator string of `SepLength` characters that crosses a border, an empty
directory, and functions that are not known.

### Fairness

Each thread of `CpuParallel` has weak fairness (`std::thread`s are scheduled
preemptively).  Mutexes are not fair: nothing assumes that a waiting thread gets
one, and the runs show that the job ends anyway because every claim uses up a
key.  Faults carry no fairness.  The drivers are single threads with weak
fairness, that of `CppPageRank` except while it waits for a job of several threads that has reported an error (`MayHang`): such a
job need not end; MPI processes have weak fairness each, and mpirun's kill none.  In
`MpiBase` the joint actions have weak fairness too: they are enabled once all
processes have entered the call, and MPI completes a collective then.

`DiskJob` and `MrCollectives` assume less: as long as the job or the call runs, some
step is taken again and again, whoever takes it.  A state of theirs in which the system
runs has a step (TLC's deadlock check), so this is the weak fairness of the whole next-state
relation, written as `<>[]Running => []<><<Work>>_vars` because ENABLED of
these actions is expensive to evaluate.  It does not say that any particular thread
goes on; what ends under it ends under every scheduler.  `Oink` has weak fairness of the
steps of a command (the interpreter is one thread per process) and none of the
lines, which are the user's.  `KmvStore` has no liveness property.

## 4. What the models abstract

* `double` is an exact fraction: rounding is not modelled.  TLC's integers have 32
  bits, so ALPHA is 1/2 and TOL is 1/T in its runs; ALPHA = 17/20 was tried only
  with a T that ends the loop at once.  `ALPHA = A/B` is a constant of the modules.
* Allocation failure stands for all exceptions a task may throw.
* Times, `map_times` and `reduce_times` apart from whether their `push_back` throws,
  and the text printed are left out.  `specification.map_tasks` has no effect in
  `cpu_parallel.hpp:105` (`max(num, min(num, x))` is `num`), so it is no constant.
* A reduce that fails between the insertion of a key and of its value can leave a
  key with an empty list; the value the result iterator reads for it
  (`in_memory.hpp:155`) is `Unspecified` in `ResultIterator`.
* The calls of mrmpi are modelled in `MpiBase` by their effect on the pairs of all
  processes; `MrCollectives` has their messages and pages.  Pairs arrive in the order of the
  ranks that sent them: another order changes the rounding of the sums only.
  The values of one key come in full, or not at all when they exceed a page.
* Timings and the iteration's log are left out everywhere, and so is the error stream
  but for the fact that something was written to it (`stderr` of `CpuParallel`,
  `reported` of `DiskJob`).
* `input[0]` of an empty vector (MPI Self with more processes than vertices) is
  a crash in `MpiSelf`: the vector holds no storage then.
* In `DiskJob` a word is one character and what a thread does under one lock is one
  step; `CpuParallel` takes the same locks apart.  Two erases of a `std::map` at a time may
  leave it as it should be, or torn; a torn map may end the program at any later access.
* Keys and values of mrmpi are numbers with a size in bytes; alignment is left
  out, and so are the statistics.  A file is a sequence of pages.  An object's contents outside the pages it
  has lent are forgotten between calls, as are its tags, which no later call can meet.
* The hash of a key is a constant.  How `sort_keys` orders a page in memory is the order
  of the numbers; how it merges pages is modelled.
* MPI messages between two processes arrive in order per tag, none is lost.
* A separator of `MapFiles` is the offset at which it starts; what else a file holds is left out.
  `Object` of OINK keeps pointers to MapReduce objects only, so an object is a number.

`TypeOK` in each module says which values its variables take; those of `CpuParallel`,
`SerialPageRank`, `CppPageRank` and `MpiBase` are proved (and what `Oink`'s says of its table, in `ScriptInv`), the others are there to be read;
none is listed in the runs.

## 5. Proofs

`tlapm` checks the following for every value of the constants; TLC evaluates the
ASSUMEs on every run.

| theorem | statement | argument |
|---|---|---|
| `CpuParallel_proofs!TypeCorrect` | `Spec => []TypeOK` | with: the key a thread works on is below `N` |
| `ClaimedOnceHolds` | `Spec => []ClaimedOnce` | `ClaimInv`: the holder of `m1` is alone between read and increment, so all keys below `sequence` were read once |
| `NoLateStepHolds` | `Spec => NoLateStep` | `PhaseInv`: a thread's label belongs to the phase the main thread is in |
| `ExactlyOnceHolds` | `Spec => []ExactlyOnce` | `MergeInv`: only the holder of `m2` merges; while it does, the store holds its values for exactly the partitions behind it, and of other claimed, unmerged keys nothing |
| `ReducedOnceHolds` | `Spec => []ReducedOnce` | `PartitionInv` (as `ClaimInv`, for `partition`) and `RowsInv`: a key with a result is in no reducer's map and cannot be swapped into one |
| `CountersAccountHolds` | `Spec => []CountersAccount` | the counters of the threads, added up, are what the threads did (`Balanced`); `collate` adds them one thread after the other (`PartialSums`, `Collated`) |
| `ImplementsContractHolds` | `Spec => ImplementsContract` | `BoundInv`: what is stored, taken or summed for a pair of keys is never more than was emitted; `CleanInv`: until an error line is written, every key is handed out, stored in full and has one result; see below |
| `AllReadHolds` | `JobSpec => []AllRead` (of `JobResults`) | `ReadInv`: each partition's iterator stands at its first stored key that was not read (`PlacesAfter`), and what was read is the values of the keys before; `JobIsRun` carries the theorems above over to `JobSpec` |
| `WebGraph_proofs!LoadsAlwaysDivide` | for all N and Size the blocks of `getProcessLoad` cut `0..N-1`, the last one with the remainder | division with remainder, offsets by monotony |
| `SerialPageRank_proofs!TypeCorrect` | `Spec => []TypeOK` | fractions are closed under the operations of the loop |
| `ImplementsPowerIterationHolds` | `Spec => ImplementsPowerIteration` (of `SerialPageRank`) | `LoopIsGoogle`: one factor for all vertices and a walk over `fromList` are a multiplication with the Google matrix |
| `RanksSumToOne` | `Spec => []MassInv`: the ranks are fractions that sum to one | the columns of the Google matrix sum to one, as sums may be exchanged (`ExchangedSums`) |
| `ReturnsStationaryHolds` | `Spec => []ReturnsStationary` | `ReturnedInv`: the last step changed the ranks by less than TOL; a step multiplies differences by ALPHA at most (`GoogleContracts`: the links of a column sum to ALPHA, the jumps are the same for two columns of the same sum) |
| `CppPageRank_proofs!TypeCorrect` | `Spec => []TypeOK` | the results of a job, complete or not, are pairs of keys below N |
| `ImplementsSerialHolds` | `Spec => ImplementsSerial` (of `CppPageRank`) | `QuietInv`: without a report the datasources are fresh when their job runs, and the results are those of all vertices; see below |
| `CleanIterationHolds` | `Spec => CleanIteration` | `CleanInv`: as `QuietInv`, but for the iteration at hand, whatever earlier ones lost |
| `MpiSelf_proofs!WorkDividedHolds` | `Spec => []WorkDivided` | `LoadsAlwaysDivide` and that N is a number, from the shape of a file's graph |
| `CrashNeedsTooManyRanksHolds` | `Spec => []CrashNeedsTooManyRanks` | when Size <= N every block has at least N \div Size keys, so `NoFactor` is never enabled |
| `ImplementsSerialHolds` | `Spec => ImplementsSerial` (of `MpiSelf`) | `AloneInv`: the only process has all keys and does not crash (`CrashInv`); then each of its steps is one of the serial loop |
| `MpiBase_proofs!TypeCorrect` | `Spec => []TypeOK` | a pair's key is a vertex whichever callback emitted it |
| `ProcessesAgree` | `Spec => []AgreeInv` | see below |
| `LeaveTogetherHolds` | `Spec => []LeaveTogether` | from `AgreeInv` |
| `ChunksDivideHolds` | `Spec => []ChunksDivide` | the bounds `r*N \div Size` are monotone from 0 to N |
| `EachVertexOnceHolds` | `Spec => []EachVertexOnce` | `OnceInv`: the chunks cover the vertices, `aggregate` sends a key to its owner alone, so the lists that `gather` appends share no key, and sorting such a list gives its ranks in order |
| `OutputIsPageRankHolds` | `Spec => []OutputIsPageRank` | `FileInv`: what stands in the file before a writer's position was written by some process; with `AgreeInv` it is the same line whoever wrote it |
| `ImplementsPowerIterationHolds` | `Spec /\ []PagesFit => ImplementsPowerIteration` (of `MpiBase`) | `FlowInv`: what each process holds after each call, in numbers; see below |
| `FactorIsNumberHolds` | `Spec /\ []PagesFit => []FactorIsNumber` | from `FlowInv`; run `mpi_base_large` has the loss of the factor when a page is too small |
| `Stores_proofs!RequestLendsFreePages`, `UnmarkTakesBack` | a pool (`IsPool`) stays one; requested pages lie side by side, were not lent and have a tag of their own; every other tag keeps its pages | the place found is free (`PlaceIsFree`), a new chunk has addresses above all others (`AllocationExtends`), and marking changes no other page (`GrantMarks`) |
| `Stores_proofs!SegmentsDivideHolds` | `Spec => []SegmentsDivide` (of `DiskJob`) | `DividedInv`: what is before a file's offset is what was handed out of it; `ReadOnInv`: without an error a file that was begun is current or in a thread's hand until it is read, and no thread is done while one is |
| `NoFilesLeftHolds` | `Spec => []NoFilesLeft` | `DiskInv`: `disk` is the sum of what each partition has (`FilesOf`), in every phase; `HandsInv`: a claimed partition is reduced or in the hands of one reducer |
| `AbortsOnlyIfHolds` | `Spec => []AbortsOnlyIf` | `HeldInv`: while nothing failed there are three descriptors of mkstemp's for every fragment, so that too few for a task are too few by the files of the job; `OverrunInside`: a look past the mapping is of a file of whole pages longer than a segment; `AskedInv`: one thread asks for the file it has, and a file is put back only when it is longer than a segment; `WordsInv`: a word handed out is stored or in a thread's hand, and an entry goes only when its own reducer erases it |
| `MergesAllHolds` | `Spec => []MergesAll` | `MergeInv`: a partition's fragments are files in ascending order, and what is left of its files has each record as often as the fragments have; see below |
| `DiskImplementsContract` | `Spec => ImplementsContract` (of `DiskJob`) | `CountedInv`: what is stored of a word and what tasks have in hand are what was read of it, or less after an error; `RightInv`: each partition's file has its words that often, from hand to hand until its results are written; see below |
| `Oink_proofs!ScriptSafe` | `Spec => []ScriptInv` | every pointer a command holds and every input it was given lies in the table `mrwrap`; see below |
| `LeftoverIsHalved` | `Spec => LeftoverHalved` | `HalfSurvives`: of the entries the loop has passed, those it kept and the one it may skip next are at most as many as those it deleted |
| `ScriptCrashesOnlyIf` | `Spec => []CrashesOnlyIf` | `AddInputsResult`: the search for an input's settings fails only at an entry that an earlier input consumed, and then the command has fewer inputs than it takes; a call over files crashes at its function only when that is NULL, and at its sizes only when there is neither a file nor a task |
| `ScriptKeepsNames` | `Spec => []NamesKept` | a cleanup keeps every permanent entry (`NamedSurvive`), a new object gets no name that a command found, and only `Output` renames |
| `MapDivides` | `Spec => []ChunksDivide` | `MapInv` and the geometry of a file's cuts; see below |

The refinements make a chain: a job under the thread pool meets `JobContract`, and so does
one with the `local_disk` store; the
driver over jobs that meet it is `SerialPageRank`, and so is the one-process program of
MPI Self; `SerialPageRank` is `PowerIteration`, and so is every process of `MpiBase`.
`CppPageRank` names its jobs by their contract only, so the chain holds for every input
file, number of threads and number of partitions.

* The contract has two sides.  `BoundInv` (nothing is counted twice) holds whatever throws.
  That nothing is missing holds only until a line is written to `std::cerr`, and it cannot be
  said of a phase by itself: `Handed` (a thread that ends its map phase quietly has seen the
  end of the sequence, so every key is claimed), `Nodes` (every key below it is merged or in the hands of a
  thread that will merge it) and `Reducing` (every partition below the counter is swapped
  out, and what was swapped out is summed or in a reducer's hands) hand it on from phase to phase.
* In `CppPageRank` the copy goes by position and not by key.  `PositionIsKey` is why this is
  right: when every vertex has a result, the number of smaller keys of a vertex is the vertex.
* `SerialPageRank`, `CppPageRank` and `MpiSelf` compute the same folds of the same functions
  (`Same...`).  The entry of `fromList` that the serial loop adds
  up is the entry of `toList` that the map tasks emit (`BothLists`, `InputInv`).
* That these folds are `PowerIteration`'s is arithmetic.  A fraction is kept in lowest terms, so
  equal numbers are equal values, and `WebGraph_proofs` has the laws of `plus`
  and `times` on such pairs and those of the sums: a
  sum over a union of disjoint sets (`SumsSplit`), a sum of sums (`AddedSums`), a constant factor
  (`LinearSum`).  Each is an induction over a finite set written as the search for a least
  counterexample (`LeastNumber`, `MinimalSet`), since the provers cannot instantiate the
  library's induction theorems.

`IsPool`, which the theorems on the page pool start from, is part of the invariant
`PagesAccounted` in run `mr_store`: the calls leave their pools so.  That `mem_cleanup` keeps it is
model-checked only; it is a fold over the pages.

The invariants `ClaimedOnce`, `ExactlyOnce` and `ReducedOnce` are not inductive:
each forgets who holds the mutex that makes it true.  The conjuncts named above
say so, and each is proved action by action.

`LeaveTogether` is not inductive either: a process leaves the loop because of its
norm, and the others' norms are equal to it only because of what they took, one
process after the other, in the call before.  `AgreeInv` compares instead the
columns and norms that the processes will have once they have taken the pairs
they hold (`Result`), says that they are in the same part of the program between two
collectives (`LockStep`), and, for the moment in which some have gone on and reset
their norms, that the norms of those still to test are too large as well
(`SameNorm`).  It needs no assumption about the hash, the callbacks' values or
the arithmetic: the proof uses of `GatherPageRank` only that it is a function.

The refinement by `MpiBase` has more to say.  A pair's place depends on the number of processes
and on the hash, so `FlowInv` speaks of the *weight* of a key, the sum of its
values over the lists of all processes.  The weight is the same before and after every call:
when the chunks' lists are made (`ChunkSums`), sent to the owners (`Received`),
grouped (`Grouped`), and reduced (`PageSum`, `FactorSum`); after `gather` and `sort_keys`
the list is the column itself (`GatheredInOrder`).
The hypothesis `PagesFit` says that the values of a key fit in a page
whenever a reduce callback is about to see them.  It is needed: a larger multivalue
comes with `nvalues` = 0, so a reduce callback of `Calculator.cpp` divides by zero or sums nothing.
It holds in every state of run `mpi_base` (`MaxValues` is 99 there, more than the graphs of at most
three vertices emit), and `mpi_base_large` is the run without it.

The script's invariant (`ScriptInv`) has four parts: `TableInv` (an entry of `mrwrap` has a name
exactly when it is not temporary), `IsUsers` (what `input` lines set has the fields that
a command reads), `AreInputs` (a descriptor of an object points into the table, one of files
has a list of paths for each rank) and `CmdInv` (the step of the command is one of its `Run`, its pointers lead to
objects of the table, nothing is renamed before its output).  None of them could do without the others:
a pointer is what `copy_mr` or `input` left, these look into the table, and the
table shrinks only when no command has a pointer.  `ScriptAssumption` says what a
script's text is: settings have the types that `Object::user_input` parses, and what a
`map` line names is a list of strings.

`ChunksDivide` rests on `MapInv`: `FilesInv` (which stages split files, and that nothing is given before the
last one), `WholeInv` (of whole files: those given and those still to be taken are together the `nmap` tasks) and
`SplitInv` (what is given are the pieces of the plan, and those of tasks no longer to be taken are all given).  The plan of
`map_chunks` is whatever its passes over the files leave, and only two facts about it are needed: each file has at
least one task, and `which` has every task of every file (`IsPlan`).  A piece is what lies between the first separators at or after the cuts
`itask*size/ntasks` and `(itask+1)*size/ntasks`, so the end of a task's piece is the start of the next one's
*provided* both find the same separator: the one reads up to `delta` characters beyond the cut, the other looks for it among the
`delta` first of its own.  When either finds none the call fails, which is why the invariant speaks of
the tasks that succeeded (`PieceBounds`, `PiecesMeet`, `PiecesApart`) and why only a call that has come back
is known to have covered the file (`PiecesCover`).  `DiskAssumption` says that sizes and
offsets are numbers.  `ListingAssumption` says that `findfiles` ends for every directory.

`MergesAll` says that `file_merger` loses and doubles nothing, whatever the number of fragments and
however many rounds of `max_files` it takes.  How often a file has a record is a count of its
places, and how often a list of files has it is a sum of counts (`SumTo`, `CountIsSum`).  A step of the
merge takes the least record off every file at whose front it stands, and writes it as often as that
(`TakenCounts`, `MergeStepKeeps`); it ends because fewer records remain after each step
(`Remaining`, `MergeFilesIs`), and a round replaces a prefix of the list by its merge
(`MergeRoundKeeps`).  That the least record of the fronts is the least of all needs the files in order, which is what
closing a file makes of it: the rank of a record is the number of smaller ones, and ranks are a bijection
(`RankedIs`, `OrderedAscends`).

`ImplementsContract` of `DiskJob` counts each word on its way through the job.  While tasks map, what the
fragments of its partition have of it and what tasks have in hand add up to what has been handed out of the files
(`CountedInv`, a sum over fragments, one over threads and one over files; each step changes
one term of two of them, `InAllChanges`).  When the last task is joined nothing is in hand and, without an
error, every file has been read (`ReadOnInv`), so each fragment list has the words that the directory has; after an
error it may have fewer.  `MergeInv` takes that over to the one merged file, and `RightInv` follows this file:
in the store until a reducer finds it, in the reducer's hand across the erase (`HandsInv`: nobody else's
erase can be of the same partition), and then in its results.  What `reduce` makes of a file in order is one call for
each key with as many values as the file has records of it (`GroupsGoOn`, `CallsAre`), so the result file has
a row for each word and the row its number (`RowsAre`, `ResultsAre`); a task that throws leaves a part of those rows.
The proof needs that the keys of a file are in order: otherwise a word would get two calls.

Only model-checked: all that involves fairness (`Terminates`, `EndsOrLeaks`, `Returns`,
`MapEnds`); and the paged stores and the collectives (`ContentsKept`,
`GroupsKept`, `NothingLost`, `PagesAccounted`, `DiskAccounted`, `WholeStore`, `NothingLeft`, `ImplementsPairs`), whose operators
are folds over pages and pairs of one record that holds the whole process.

## 6. Plan

1. Proofs: the invariants of `KmvStore` that the page pool's theorems start.
2. The message steps of `MrCollectives` in `MpiBase`'s place for its calls, so that
   pages and messages of the whole program are checked together.
3. `combine_fragments` and the result iterator of `local_disk`.

## 7. Not modelled

* OINK's variables and its control of scripts (`variable.cpp`, most of `input.cpp`): an
  interpreter of text formulas in which the text is what happens.
* OINK's graph commands (`cc_find`, `luby_find`, `tri_find`, `sssp`, `rmat`, `neighbor`): compositions of the
  library's calls, each of which `KmvStore` and `MrCollectives` check; no PageRank program uses them.
* mrmpi's `hash.cpp` (pure), `memory.cpp`, `error.cpp`, the C interface, the Python
  binding, the MPI stubs and the examples: no state of their own.
* Dead code of MPI Self (templates that no program instantiates).
* `local_disk`: failing file operations other than for want of descriptors, the combiner of fragments, and `max_lines` of
  `file_key_combiner`, which starts a new file every 4294967000 lines (`mergesort.hpp:165`).
* What becomes of a job on disk whose merges or reducers can open no file (`Starved`): the merge of an empty
  list, a result that is not written.  The model stops there, and a merge that runs is taken to open its result and one file at least.
* What a conversion does after its spools have been lent the page it reads through
  (`keymultivalue.cpp:624`): reading and spooling overwrite each other, and the model stops there
  (`ReadPageLent`).  `NothingLost`, `GroupsKept` and `ContentsKept` say nothing of what comes after.
* `map` of an object of several pages onto itself with `addflag` (`mapreduce.cpp:1482`): it appends to a copy that
  was never completed, one page too far back, and loses pairs.  `MapSelf` has the call for a store of one page.
* What a call reads of a store whose only copy was freed after a change of `outofcore`: whatever its next page
  happens to hold.  Such a store is only deleted or replaced.
* A partition that `cpu_parallel` left out of the shuffle is reduced without an end (`Spins` of `DiskJob`); in
  the code this loop appends to a list all the while, and ends when memory does.
* `SegmentsDivide` looks at a set of segments, so the same segment handed out twice would show in
  `ImplementsContract` only.
* OINK's MR commands that only forward a call (`map/task`, `map/mr`, `reduce`, `compress`, `scan/kv` and others).  With an unknown
  function they call through NULL like the map commands that are modelled.
* The `set` command of OINK and the files and formats of its output.
