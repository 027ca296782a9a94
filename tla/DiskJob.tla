-------------------------------- MODULE DiskJob --------------------------------
(***************************************************************************)
(* A mapreduce::job that counts the words of a directory's files (job.hpp) *)
(* over directory_iterator, with the local_disk store and reduce output to *)
(* files, run by the sequential policy or by one thread per CPU (cpu_parallel.hpp). *)
(* A map task emits <<word, 1>> for each word of its segment, a word being *)
(* a character other than a line end; a reduce task adds up the values.    *)
(* (The source's segments stand for strings: local_disk takes its key type *)
(* from MapTask::value_type, local_disk.hpp:346, and does not compile with *)
(* the pointer and length of the default file handler as it is.)           *)
(*                                                                         *)
(* The name of a temporary file comes from mkstemp, which leaves the file  *)
(* open (platform.hpp): descriptors are counted, and may run out.          *)
(*                                                                         *)
(* What a thread does under m1, under m2 or with a store of its own is one *)
(* step; CpuParallel takes those locks apart.                              *)
(***************************************************************************)
EXTENDS DirectorySource, RecordFiles

CONSTANTS Directories,  \* the directories that may be given
          Words,        \* characters that are words
          P, Part,      \* partitions, and the partition of each word
          Cpus,         \* values of num_cpus_
          OpenLimits,   \* numbers of files the job may have open at once
          TasksThrow    \* may map and reduce tasks throw?

ASSUME DiskAssumption ==
  /\ Directories \subseteq Seq(Seq(Words \union {Newline}) \union {Directory})
  /\ Words \subseteq Nat \ {0} /\ P \in Nat \ {0} /\ Part \in [Words -> 0..(P - 1)]
  /\ Cpus \subseteq Nat \ {0} /\ Cpus # {} /\ IsFiniteSet(Cpus) /\ OpenLimits \subseteq Nat
  /\ TasksThrow \in BOOLEAN /\ Segment \in Nat \ {0} /\ MapPage \in Nat \ {0} /\ NoFile \notin Nat

VARIABLES
  policy,     \* "sequential" or "parallel"
  cpus,       \* num_cpus_
  dir, src,   \* the directory, and the datasource's state
  openMax,    \* files that may be open at once
  held,       \* descriptors that mkstemp has left open
  phase,      \* of the job: map, shuffle, reduce, ended; "aborted" when an assertion failed
  thr,        \* threads: [at, key, data, part]
  store,      \* intermediate_files_: partition -> [fragments, merging, temps, file]
  partition,  \* next partition to be reduced
  output,     \* result files: partition -> records
  disk,       \* temporary files that exist
  torn,       \* two threads changed intermediate_files_ at once
  reported,   \* an error was written to std::cerr
  ends        \* history: the segments handed out, [file, from, to]

vars == <<policy, cpus, dir, openMax, held, src, phase, thr, store, partition, output, disk, torn, reported, ends>>

Partitions == 0..(P - 1)
Slots == 1..Max(Cpus)
Threads == 1..(IF policy = "sequential" THEN 1 ELSE cpus)
Reducers == {w \in Threads : w <= P}
At(w, place) == thr[w].at = place
Goto(w, place) == thr' = [thr EXCEPT ![w].at = place]
Aborts == phase' = "aborted" /\ UNCHANGED <<held, src, thr, store, partition, output, disk, torn, reported, ends>>
Input == <<policy, cpus, dir, openMax>>

Entry(files) == [fragments |-> files, merging |-> <<>>, temps |-> 0, file |-> <<>>]
\* an entry is made with its first fragment
NoEntry == Entry(<<>>)
HasEntry(p) == store[p].fragments # <<>>

Init ==
  /\ policy \in {"sequential", "parallel"} /\ cpus \in Cpus
  /\ dir \in Directories /\ src = Opening(dir)
  /\ openMax \in OpenLimits /\ held = 0
  /\ phase = "map"
  /\ thr = [w \in Slots |-> [at |-> IF w \in Threads THEN "key" ELSE "done", key |-> NoFile, data |-> <<>>, part |-> 0]]
  /\ store = [p \in Partitions |-> NoEntry] /\ partition = 0
  /\ output = [p \in Partitions |-> <<>>]
  /\ disk = 0 /\ torn = FALSE /\ reported = FALSE /\ ends = {}

-----------------------------------------------------------------------------
(* map *)

\* get_next_map_key
NextKey(w) ==
  /\ phase = "map" /\ At(w, "key")
  /\ IF HasKey(src, dir)
     THEN /\ thr' = [thr EXCEPT ![w].key = KeyOf(src, dir), ![w].at = "data"]
          /\ src' = AfterKey(src, dir)
     ELSE Goto(w, "done") /\ src' = AtEnd(src, dir)
  /\ UNCHANGED <<Input, held, phase, store, partition, output, disk, torn, reported, ends>>

\* A map task that fails is given up; the sequential policy asks for no more keys.
GivesUp(w) ==
  /\ Goto(w, IF policy = "sequential" THEN "done" ELSE "key")
  /\ reported' = TRUE

SumOf(values) == FoldLeft(LAMBDA sum, v : sum + v, 0, values)

\* Other threads in their tasks may hold descriptors too.
Fits(n) == held + Cardinality(src.opened) + n <= openMax
Filled(data) == {Part[c] : c \in Range(data) \intersect Words}
Streams(w) == Cardinality(Filled(thr[w].data))
TaskNeeds(w) == IF At(w, "task") /\ Streams(w) > 0 THEN 3 * Streams(w) + 2 ELSE 0
Others(w) == SumOf([v \in Threads |-> IF v = w THEN 0 ELSE TaskNeeds(v)])
Scarce(w, n) == ~Fits(Others(w) + n)

GetData(w) ==
  /\ phase = "map" /\ At(w, "data")
  /\ LET key == thr[w].key  opening == src.current = NoFile IN
     IF AssertFails(src, key) THEN Aborts
     ELSE /\ \/ /\ OpenFails(src, dir, key) \/ (opening /\ Scarce(w, 1))
                /\ GivesUp(w) /\ src' = AfterFailure(src, key) /\ UNCHANGED ends
             \/ /\ ~OpenFails(src, dir, key) /\ ~Unmapped(src, key) /\ (opening => Fits(1))
                /\ thr' = [thr EXCEPT ![w].data = SegmentOf(src, dir, key), ![w].at = "task"]
                /\ src' = AfterData(src, dir, key)
                /\ ends' = ends \union {[file |-> key, from |-> src.offset[key], to |-> SegmentEnd(src, dir, key)]}
                /\ UNCHANGED reported
          /\ UNCHANGED <<held, phase, store, partition, output, disk, torn>>
  /\ UNCHANGED Input

GetNothing(w) ==
  /\ phase = "map" /\ At(w, "data") /\ Unmapped(src, thr[w].key)
  /\ thr' = [thr EXCEPT ![w].data = <<>>, ![w].at = "task"]
  /\ src' = PutAway(src)
  /\ UNCHANGED <<Input, held, phase, store, partition, output, disk, torn, reported, ends>>

\* The character past the mapping may not be there to be read.
Overrun(w) ==
  /\ phase = "map" /\ At(w, "data")
  /\ ~AssertFails(src, thr[w].key) /\ ~OpenFails(src, dir, thr[w].key) /\ ~Unmapped(src, thr[w].key)
  /\ src.current = NoFile => Fits(1)
  /\ Overruns(src, dir, thr[w].key)
  /\ Aborts /\ UNCHANGED Input

\* The records of a segment for partition p, and the partitions that have any: each has a
\* file of the task's own store, sorted once when it is closed and once by combine.
RecordsFor(data, p) ==
  FoldLeft(LAMBDA file, c : IF c \in Words /\ Part[c] = p THEN Append(file, <<c, 1>>) ELSE file,
           <<>>, data)

\* merge_from: the task's files become fragments of the job's store.
Merged(s, data) ==
  [p \in Partitions |->
     IF p \notin Filled(data) THEN s[p]
     ELSE Entry(Append(s[p].fragments, Ordered(Ordered(RecordsFor(data, p)))))]

\* A file of the task's store takes a descriptor of mkstemp's and one for its stream, and
\* combine two more of mkstemp's.
MapTask(w) ==
  /\ phase = "map" /\ At(w, "task") /\ Fits(TaskNeeds(w))
  /\ store' = Merged(store, thr[w].data)
  /\ disk' = disk + Streams(w) /\ held' = held + 3 * Streams(w)
  /\ thr' = [thr EXCEPT ![w].at = "key", ![w].data = <<>>]
  /\ UNCHANGED <<Input, src, phase, partition, output, torn, reported, ends>>

\* The task throws when n of its files are open: its store goes, with its files.
MapThrows(w) ==
  /\ TasksThrow /\ phase = "map" /\ At(w, "task")
  /\ GivesUp(w)
  /\ \E n \in 0..Streams(w) : Fits(2 * n) /\ held' = held + n
  /\ UNCHANGED <<Input, src, phase, store, partition, output, disk, torn, ends>>

\* insert asserts that its stream is open ...
OutOfFiles(w) ==
  /\ phase = "map" /\ At(w, "task") /\ Streams(w) > 0 /\ Scarce(w, 2 * Streams(w))
  /\ Aborts /\ UNCHANGED Input

\* ... combine throws; the file it was to write may stay.
CombineFails(w) ==
  /\ phase = "map" /\ At(w, "task") /\ Streams(w) > 0
  /\ Fits(2 * Streams(w)) /\ Scarce(w, TaskNeeds(w))
  /\ GivesUp(w)
  /\ \E n \in Streams(w)..(3 * Streams(w)) : Fits(n) /\ held' = held + n
  /\ disk' \in {disk, disk + 1}
  /\ UNCHANGED <<Input, src, phase, store, partition, output, torn, ends>>

-----------------------------------------------------------------------------
(* shuffle *)

\* cpu_parallel's loops leave out a partition after every num_cpus_.
Shuffled == {p \in Partitions : policy = "sequential" \/ p % (cpus + 1) # cpus}

JoinMaps ==
  /\ phase = "map" /\ \A w \in Threads : At(w, "done")
  /\ IF \E p \in Shuffled : ~HasEntry(p) THEN Aborts
     ELSE /\ store' = [p \in Partitions |-> IF p \in Shuffled THEN [store[p] EXCEPT !.merging = store[p].fragments]
                                            ELSE store[p]]
          /\ disk' = disk + Cardinality(Shuffled)
          /\ phase' = "shuffle"
          /\ UNCHANGED <<held, src, thr, partition, output, torn, reported, ends>>
  /\ UNCHANGED Input

\* A merge has its result open and as many of its files as it can open, which is fewer when
\* others merge at the same time.  (It is taken to open its result and one file.)
Unmerged(p) == phase = "shuffle" /\ store[p].merging # <<>>
Alone(p) == policy = "sequential" \/ \A q \in Partitions \ {p} : ~Unmerged(q)
NewName(p) == IF store[p].temps = 0 THEN 1 ELSE 0
Limits(p) ==
  {n \in 1..openMax : Fits(NewName(p) + 1 + n) /\ (Alone(p) => ~Fits(NewName(p) + 2 + n))}

ShuffleKeepsTemps(p) ==
  /\ Unmerged(p)
  /\ policy = "sequential" => \A q \in 0..(p - 1) : store[q].merging = <<>>
  /\ \E limit \in Limits(p) :
       LET round == MergeRound(store[p].merging, limit)  last == round.left = <<>> IN
       /\ store' = [store EXCEPT ![p].merging = round.left, ![p].file = round.out, ![p].temps = 0]
       /\ disk' = IF last THEN disk - Len(store[p].fragments) ELSE disk + 1
       /\ held' = held + NewName(p) + (IF last THEN 0 ELSE 1)
  /\ UNCHANGED <<Input, src, phase, thr, partition, output, torn, reported, ends>>

\* A round of the merge of one partition.  Its result is renamed when another must follow;
\* after the last, all that has been merged is deleted.
Shuffle(p) ==
  /\ Unmerged(p)
  /\ policy = "sequential" => \A q \in 0..(p - 1) : store[q].merging = <<>>
  /\ \E limit \in Limits(p) :
       LET round == MergeRound(store[p].merging, limit)  last == round.left = <<>> IN
       /\ store' = [store EXCEPT ![p].merging = round.left, ![p].file = round.out,
                                 ![p].temps = IF last THEN 0 ELSE @ + 1]
       /\ disk' = IF last THEN disk - Len(store[p].fragments) - store[p].temps ELSE disk + 1
       /\ held' = held + NewName(p) + (IF last THEN 0 ELSE 1)
  /\ UNCHANGED <<Input, src, phase, thr, partition, output, torn, reported, ends>>

\* A reducer opens a merged file and a result file.
JoinShuffles ==
  /\ phase = "shuffle" /\ \A p \in Shuffled : store[p].merging = <<>>
  /\ Fits(2 * Cardinality(Reducers))
  /\ phase' = "reduce"
  /\ thr' = [w \in Slots |-> [thr[w] EXCEPT !.at = IF w \in Reducers THEN "claim" ELSE "done"]]
  /\ UNCHANGED <<Input, held, src, store, partition, output, disk, torn, reported, ends>>

-----------------------------------------------------------------------------
(* reduce *)

Claim(w) ==
  /\ phase = "reduce" /\ At(w, "claim")
  /\ thr' = [thr EXCEPT ![w].part = partition, ![w].at = IF partition < P THEN "find" ELSE "done"]
  /\ partition' = partition + 1
  /\ UNCHANGED <<Input, held, src, phase, store, output, disk, torn, reported, ends>>

\* find in the map, erase from it: with another thread's erase between them the map may be
\* destroyed.
Erasing(w) == \E v \in Threads \ {w} : At(v, "erase")
Find(w) ==
  /\ phase = "reduce" /\ At(w, "find")
  /\ IF ~HasEntry(thr[w].part) THEN Aborts
     ELSE /\ thr' = [thr EXCEPT ![w].data = store[thr[w].part].file, ![w].at = "erase"]
          /\ torn' = (torn \/ Erasing(w))
          /\ UNCHANGED <<held, src, phase, store, partition, output, disk, reported, ends>>
  /\ UNCHANGED Input

Erase(w) ==
  /\ phase = "reduce" /\ At(w, "erase")
  /\ store' = [store EXCEPT ![thr[w].part] = NoEntry]
  /\ torn' = (torn \/ Erasing(w))
  /\ Goto(w, "reduce")
  /\ UNCHANGED <<Input, held, src, phase, partition, output, disk, reported, ends>>

\* A thread crashes on the destroyed map.
Crash(w) ==
  /\ phase = "reduce" /\ torn /\ thr[w].at \in {"find", "erase"}
  /\ Aborts /\ UNCHANGED Input

\* A call of the reduce task for each word, which writes the sum to the result file; the
\* merged file is deleted.  A partition that was left out of the shuffle has no file, and its
\* reduce never comes to the end of it.
Results(calls) == [i \in DOMAIN calls |-> <<calls[i][1], SumOf(calls[i][2])>>]
Spins(w) == phase = "reduce" /\ At(w, "reduce") /\ thr[w].part \notin Shuffled
Reduces(w) == phase = "reduce" /\ At(w, "reduce") /\ thr[w].part \in Shuffled
Reduce(w) ==
  /\ Reduces(w)
  /\ output' = [output EXCEPT ![thr[w].part] = Results(Calls(thr[w].data))]
  /\ disk' = disk - 1
  /\ thr' = [thr EXCEPT ![w].at = "claim", ![w].data = <<>>]
  /\ UNCHANGED <<Input, held, src, phase, store, partition, torn, reported, ends>>

\* The reduce task throws at one of its calls: the results so far stay, the file too.
ReduceThrows(w) ==
  /\ TasksThrow /\ Reduces(w)
  /\ \E n \in DOMAIN Calls(thr[w].data) :
       output' = [output EXCEPT ![thr[w].part] = Results(SubSeq(Calls(thr[w].data), 1, n - 1))]
  /\ reported' = TRUE
  /\ thr' = [thr EXCEPT ![w].at = "claim", ![w].data = <<>>]
  /\ UNCHANGED <<Input, held, src, phase, store, partition, disk, torn, ends>>

JoinReducers ==
  /\ phase = "reduce" /\ \A w \in Threads : At(w, "done")
  /\ phase' = "ended"
  /\ UNCHANGED <<Input, held, src, thr, store, partition, output, disk, torn, reported, ends>>

MapStep(w) ==
  \/ NextKey(w) \/ GetData(w) \/ GetNothing(w) \/ Overrun(w)
  \/ MapTask(w) \/ MapThrows(w) \/ OutOfFiles(w) \/ CombineFails(w)
ReduceStep(w) == Claim(w) \/ Find(w) \/ Erase(w) \/ Crash(w) \/ Reduce(w) \/ ReduceThrows(w)
Work ==
  \/ \E w \in Slots : MapStep(w) \/ ReduceStep(w)
  \/ \E p \in Partitions : Shuffle(p)
  \/ JoinMaps \/ JoinShuffles \/ JoinReducers

\* Some thread runs as long as one can, which is until the job is over or waits for a
\* reducer that spins (no run ends in another deadlock): weak fairness of Work.
Stuck == (\E w \in Threads : Spins(w)) /\ \A w \in Threads : At(w, "done") \/ Spins(w)
\* Merges or reducers that can open no file are not followed further.
Starved ==
  /\ phase = "shuffle"
  /\ \A p \in Partitions : Unmerged(p) => Limits(p) = {}
  /\ (\E p \in Partitions : Unmerged(p)) \/ ~Fits(2 * Cardinality(Reducers))
Running == phase \notin {"ended", "aborted"} /\ ~Stuck /\ ~Starved
Over == ~Running /\ UNCHANGED vars
Next == Work \/ Over
Fairness == <>[]Running => []<><<Work>>_vars
Spec == Init /\ [][Next]_vars /\ Fairness

-----------------------------------------------------------------------------
Records == Seq(Words \X Nat)
TypeOK ==
  /\ phase \in {"map", "shuffle", "reduce", "ended", "aborted"}
  /\ policy \in {"sequential", "parallel"} /\ partition \in 0..(P + cpus)
  /\ disk \in Nat /\ held \in Nat /\ torn \in BOOLEAN /\ reported \in BOOLEAN
  /\ \A p \in Partitions : output[p] \in Records /\ store[p].file \in Records

\* The segments handed out of a file do not overlap and end where a line does, and when the
\* job has ended without an error they are the whole file: no word is counted twice or not
\* at all, whichever thread asked for which key (datasource.hpp).
LineEnds(f) == {i \in 0..Len(dir[f]) : i \in {0, Len(dir[f])} \/ dir[f][i + 1] = Newline}
Range1(seg) == (seg.from + 1)..seg.to
SegmentsDivide ==
  /\ \A seg \in ends : {seg.from, seg.to} \subseteq LineEnds(seg.file)
  /\ \A s, t \in ends : s.file = t.file /\ s # t => Range1(s) \intersect Range1(t) = {}
  /\ phase = "ended" /\ ~reported =>
       \A f \in DOMAIN dir : dir[f] # Directory =>
         UNION {Range1(seg) : seg \in {s \in ends : s.file = f}} = 1..Len(dir[f])

\* The files of a partition that are still to be merged, together with nothing else, hold all
\* its records, each file in order; the last round leaves one file in order (file_merger).
InOrder(file) == \A i \in 1..(Len(file) - 1) : ~Before(file[i + 1], file[i])
SameRecords(a, b) == \A x \in Range(a) \union Range(b) : Count(a, x) = Count(b, x)
MergesAll ==
  phase = "shuffle" => \A p \in Shuffled :
    LET left == IF store[p].merging = <<>> THEN <<store[p].file>> ELSE store[p].merging IN
    /\ \A i \in DOMAIN left : InOrder(left[i])
    /\ SameRecords(FlattenSeq(left), FlattenSeq(store[p].fragments))

\* A job that has reported no error is aborted only if two threads ask for files at once, a
\* file of whole pages ends in the middle of a line, a partition has no record, the
\* reducers' unlocked erase has met another, or the descriptors have run out: three of them
\* stay open for every fragment that has been made.
NoRecords(p) == \A f \in DOMAIN dir : dir[f] # Directory => p \notin Filled(dir[f])
Longer(f) == dir[f] # Directory /\ Len(dir[f]) > Segment
WholePages(f) == Longer(f) /\ Len(dir[f]) % MapPage = 0 /\ dir[f][Len(dir[f])] # Newline
TwoAsk == /\ Cardinality(Threads) > 1 /\ Cardinality({f \in DOMAIN dir : dir[f] # Directory}) > 1
          /\ \E f \in DOMAIN dir : Longer(f)
Exhausts(w) ==
  At(w, "task") /\ ~(3 * disk + Cardinality(src.opened) + (Others(w) + 2 * Streams(w)) <= openMax)
AbortsOnlyIf ==
  phase = "aborted" =>
    \/ TwoAsk \/ reported \/ torn
    \/ \E p \in Partitions : NoRecords(p)
    \/ \E f \in DOMAIN dir : WholePages(f)
    \/ \E w \in Threads : Exhausts(w)

\* A job that has ended has merged the fragments of every partition, and when it met no
\* error no temporary file is left (local_disk.hpp, cpu_parallel.hpp).
NoFilesLeft == phase = "ended" => Shuffled = Partitions /\ (~reported => disk = 0)

\* The job's contract with its caller: the result files have each word once with the number
\* of times it occurs, or less after an error has been announced.
AllWords == FlattenSeq([f \in DOMAIN dir |-> IF dir[f] = Directory THEN <<>> ELSE dir[f]])
Tally(rows, n) == [rows |-> rows, list |-> [v \in {1} |-> n]]
Owed == [x \in Words |-> LET n == Count(AllWords, x) IN Tally(IF n = 0 THEN 0 ELSE 1, n)]
Written ==
  [x \in Words |->
     LET rows == output[Part[x]]
     IN  Tally(Cardinality({i \in DOMAIN rows : rows[i][1] = x}),
               SumOf([i \in DOMAIN rows |-> IF rows[i][1] = x THEN rows[i][2] ELSE 0]))]
Nothing == [x \in Words |-> Tally(0, 0)]
Contract == INSTANCE JobContract WITH ended <- phase = "ended", reported <- reported,
                                      output <- IF phase = "ended" THEN Written ELSE Nothing
ImplementsContract == Contract!Init(Nothing) /\ [][Contract!Next(Owed)]_(Contract!vars)

\* The sequential policy ends the job, or aborts.  So do several threads when every file is
\* one segment, descriptors suffice and no partition is left out, unless the map was destroyed.
\* (Two threads that both have the key of a file whose last segment is taken, or that cannot
\* be opened, may bring it back, in turn, for ever.)
OneSegment == \A f \in DOMAIN dir : dir[f] # Directory => Len(dir[f]) \in 1..Segment
Plenty == openMax >= (3 * P + 3) * Len(dir)
Terminates ==
  policy = "sequential" \/ (OneSegment /\ Plenty /\ Shuffled = Partitions)
    ~> phase \in {"ended", "aborted"} \/ torn \/ Starved
===============================================================================
